---- MODULE Spec2Model ----
(***************************************************************************)
(* A model of catfoodbot: the matching engine (services/deal_service.py),  *)
(* the alert formatter (bot/formatter.py), the run coordinator             *)
(* (tracker.py), the alert sender (services/alert_service.py) and the      *)
(* site adapters with their fan-out (scraper.py).                          *)
(*                                                                         *)
(* Prices are integers (euro cents); comparisons of Python floats that     *)
(* were parsed from two-decimal text are comparisons of these integers.    *)
(* Python dicts and lists are sequences: a dict is the sequence of its     *)
(* entries in insertion order, and assigning to an existing key replaces   *)
(* the value at the key's position.                                       *)
(***************************************************************************)
EXTENDS Integers, Sequences, FiniteSets, TLC

VARIABLES
    \* ---- matching engine and formatter (deal_service.py, formatter.py)
    deals,              \* the list handed to find_cheapest_variants
    mpc,                \* "input" | "matched"
    unique_deals,       \* dict unique_key -> deal, after step 1
    grouped_variants,   \* dict match_key -> list of deals, after step 3's sort
    cheapest_deals,     \* the returned list
    shown,              \* index in cheapest_deals of the last formatted alert (0: none)
    all_sites,          \* the "Available on:" list of the last formatted alert
    \* ---- one run: run_check, scrape_all_async, _scrape_site (tracker.py, scraper.py)
    is_running,         \* tracker._is_running
    main_pc,            \* run_check: "idle" | "gather" | "closing" | "returned" | "raised"
    site_pc,            \* per site task: "brand_fetch" | "reduced_fetch" | "callback_save"
                        \*   | "callback_alerts" | "done" | "failed"
    scan,               \* per site task: the scan being iterated, "brand" | "reduced"
    page,               \* per site task: the page of the brand scan's loop
    seen_ids,           \* per site task: seen_ids of the scan being iterated
    chunk,              \* per site task: the chunk handed to the callback
    todo,               \* per site task: what send_alerts_grouped still has to visit
    raised,             \* per site task: an exception was raised in it
    handed,             \* per site task: every (scan, offer) handed to the callback, in order
    users,              \* the UserPreferences rows
    products,           \* the Product rows (their external ids)
    price_history,      \* the number of PriceHistory rows of every product
    alert_rows,         \* the AlertSent rows
    outbox,             \* the messages Telegram accepted, in order
    total_stats,        \* run_check's total_stats
    chunk_stats,        \* per site task: the stats of the chunk being processed
    completed,          \* per site task: the stats of every chunk whose handle_chunk returned
    \* ---- the Zooroyal site task: ZooroyalScraper under _scrape_site (scraper.py)
    zr_pc,              \* the site task: "start" | "get" | "callback" | "reduced_fetch"
                        \*   | "done" | "failed" | "browser_closed"
    zr_scan,            \* the scan _scrape_site iterates: "brand" | "reduced"
    zr_max_pages,       \* the argument max_pages of scrape_brand_products
    producer_pc,        \* per brand slug: "none" | "created" | "ready" | "fetching" | "done"
    page_num,           \* per brand slug: page_num of _scrape_single_brand
    semaphore,          \* free permits of the asyncio.Semaphore
    queue,              \* the asyncio.Queue: chunks and None markers
    active_producers,   \* the consumer's counter
    zr_seen_ids,        \* seen_ids of the consumer (of the reduced scan afterwards)
    zr_chunk,           \* the chunk handed to the callback
    zr_handed,          \* every chunk handed to the callback, in order
    \* ---- the conversion of one product tile by an adapter (scraper.py)
    tile,               \* what the adapter reads from the tile
    parse_pc,           \* "input" | "parsed"
    emitted,            \* the offer the adapter emits for the tile, or NoOffer
    \* ---- one brand scan of one adapter: scrape_brand_products (scraper.py)
    bs_adapter,         \* the adapter's SITE_NAME
    bs_max_price_per_kg,    \* the argument max_price_per_kg, None or cents
    bs_max_pages,       \* the argument max_pages, None or a number
    bs_pc,              \* "idle" | "loop" | "done"
    bs_page_num,        \* the page fetched last (0: none)
    bs_seen_ids,        \* seen_ids of the scan
    exceeded_price_count,   \* Zoo24: consecutive offers above the threshold
    bs_chunk,           \* the chunk yielded last
    bs_products,        \* the offers parsed from the page fetched last
    \* ---- overlapping runs and their batches (tracker.py); the flag is is_running
    run_pc,             \* per run_check call: "idle" | "query" | "flush" | "price"
                        \*   | "commit" | "ending" | "returned"
    batch,              \* per call: the chunk given to _save_products_batch_sync
    idx,                \* per call: the position of "for scraped in products"
    row_found,          \* per call: the result of save_product's query
    pending,            \* per call: what its session has flushed and not committed
    writer,             \* the session that holds the database's write lock, or ""
    product_rows,       \* the committed rows of the table products
    price_rows,         \* the committed rows of the table price_history
    save_errors,        \* the exceptions caught in the loop of the batch
    batch_stats,        \* per call: the stats and the alert list of its batch
    \* ---- the page fetches on the shared browser (scraper.py)
    fetch_pc,           \* "idle" | "context" | "page" | "finally" | "close_context"
    fetch_adapter,      \* the adapter whose fetch is running or ran last
    fetch_path,         \* what happened in that fetch
    fetch_result,       \* what that fetch returned: "" | "None" | "[]" | "html" | "products"
    open_contexts,      \* the browsing contexts of the browser that are open
    open_pages,         \* the pages that are open
    fetch_count,        \* the fetches started
    \* ---- the conversion of the tiles of one page (scraper.py)
    cv_adapter,         \* the adapter that converts the page
    cv_tiles,           \* the tiles of the page: what converting each one does
    cv_idx,             \* the tiles converted so far
    cv_products,        \* the positions of the tiles converted to an offer
    cv_pc,              \* "loop" | "next_page" | "break" | "raised"
    \* ---- send_alerts_grouped, called for the chunks of overlapping runs
    sa_pc,              \* per call: "check" | "send" | "record" | "returned"
    sa_deals,           \* per call: the cheapest deals of the recipient, as (product, price) pairs
    sa_idx,             \* per call: the deal the loop is at
    alerts_sent_rows,   \* the committed AlertSent rows of the recipient
    delivered,          \* per (product, price): the messages delivered to the recipient
    \* ---- one UserPreferences row (database.py)
    brands,             \* the relationship to WatchedBrand: the brand_name of its rows
    watched_brands,     \* the legacy column: the pieces between its commas
    pref_last,          \* the last call: its name, argument, result, and the list before it
    pref_calls          \* the calls made

matchVars == <<deals, mpc, unique_deals, grouped_variants, cheapest_deals, shown, all_sites>>

siteVars == <<site_pc, scan, page, seen_ids, chunk, todo, raised, handed>>

dbVars == <<users, products, price_history, alert_rows, outbox>>

statVars == <<total_stats, chunk_stats, completed>>

runVars == <<is_running, main_pc, siteVars, dbVars, statVars>>

zrVars == <<zr_pc, zr_scan, zr_max_pages, producer_pc, page_num, semaphore, queue, active_producers,
            zr_seen_ids, zr_chunk, zr_handed>>

parseVars == <<tile, parse_pc, emitted>>

scanVars == <<bs_adapter, bs_max_price_per_kg, bs_max_pages, bs_pc, bs_page_num, bs_seen_ids, exceeded_price_count, bs_chunk, bs_products>>

overlapVars == <<run_pc, batch, idx, row_found, pending, writer, product_rows, price_rows, save_errors,
                 batch_stats>>

fetchVars == <<fetch_pc, fetch_adapter, fetch_path, fetch_result, open_contexts, open_pages, fetch_count>>

convertVars == <<cv_adapter, cv_tiles, cv_idx, cv_products, cv_pc>>

alertsVars == <<sa_pc, sa_deals, sa_idx, alerts_sent_rows, delivered>>

prefsVars == <<brands, watched_brands, pref_last, pref_calls>>

vars == <<matchVars, runVars, zrVars, parseVars, scanVars, overlapVars, fetchVars, convertVars, alertsVars, prefsVars>>

\* what the actions of one part of the model leave unchanged
notMatchVars == <<runVars, zrVars, parseVars, scanVars, overlapVars, fetchVars, convertVars, alertsVars, prefsVars>>

notRunVars == <<matchVars, zrVars, parseVars, scanVars, overlapVars, fetchVars, convertVars, alertsVars, prefsVars>>

notZrVars == <<matchVars, runVars, parseVars, scanVars, overlapVars, fetchVars, convertVars, alertsVars, prefsVars>>

notParseVars == <<matchVars, runVars, zrVars, scanVars, overlapVars, fetchVars, convertVars, alertsVars, prefsVars>>

notPrefsVars == <<matchVars, runVars, zrVars, parseVars, scanVars, overlapVars, fetchVars, convertVars, alertsVars>>

notAlertsVars == <<matchVars, runVars, zrVars, parseVars, scanVars, overlapVars, fetchVars, convertVars, prefsVars>>

notConvertVars == <<matchVars, runVars, zrVars, parseVars, scanVars, overlapVars, fetchVars, alertsVars, prefsVars>>

notFetchVars == <<matchVars, runVars, zrVars, parseVars, scanVars, overlapVars, convertVars, alertsVars, prefsVars>>

notOverlapVars == <<matchVars, runVars, zrVars, parseVars, scanVars, fetchVars, convertVars, alertsVars, prefsVars>>

notScanVars == <<matchVars, runVars, zrVars, parseVars, overlapVars, fetchVars, convertVars, alertsVars, prefsVars>>

None == "None"

(***************************************************************************)
(* Bounds and input universes                                              *)
(***************************************************************************)
MaxDeals == 3

Sites == {"zooplus", "bitiba", "zooroyal", "fressnapf", "zoo24"}

MatchKeys == {"leonardo|6x400g", "macs|800g"}

\* price-per-kg values in cents; two values give ties and strict differences
Ppkgs == {410, 450}

\* two keys on three sites
MatchUniverse == [key : MatchKeys, site : {"zooplus", "bitiba", "zooroyal"}, ppkg : Ppkgs]

\* one key on all five sites
AlertUniverse == [key : {"leonardo|6x400g"}, site : Sites, ppkg : Ppkgs]

\* two keys on two sites (the universe of the reordering check)
OrderUniverse == [key : MatchKeys, site : {"zooplus", "bitiba"}, ppkg : Ppkgs]

SeqsUpTo(S, n) == UNION {[1..k -> S] : k \in 0..n}

\* A deal is a (product, price, ppkg) tuple; id stands for the product row
\* (its externalId and url), distinct for every element of the input.
WithIds(s) == [i \in 1..Len(s) |->
                [id |-> i, key |-> s[i].key, site |-> s[i].site, ppkg |-> s[i].ppkg]]

DealInputs(U) == {WithIds(s) : s \in SeqsUpTo(U, MaxDeals)}

(***************************************************************************)
(* Python helpers                                                          *)
(***************************************************************************)
\* str.capitalize() on the five site identifiers
Capitalize(s) ==
    CASE s = "zooplus"   -> "Zooplus"
      [] s = "bitiba"    -> "Bitiba"
      [] s = "zooroyal"  -> "Zooroyal"
      [] s = "fressnapf" -> "Fressnapf"
      [] s = "zoo24"     -> "Zoo24"
      [] OTHER           -> s

\* list.sort(key=...) / sorted(..., key=...): a stable sort, ascending by the
\* keys (keys[i] is the key of s[i]).  The element at position i of s ends at
\* rank: the number of elements that sort before it (smaller key, or equal
\* key and earlier position), plus one.
StableSort(s, keys) ==
    LET rank(i) == 1 + Cardinality({j \in 1..Len(s) :
                        \/ keys[j] < keys[i]
                        \/ (keys[j] = keys[i] /\ j < i)})
    IN [r \in 1..Len(s) |-> s[CHOOSE i \in 1..Len(s) : rank(i) = r]]

\* position of key k in a dict (0 when absent)
DictPos(d, k) ==
    IF \E i \in 1..Len(d) : d[i].k = k
    THEN CHOOSE i \in 1..Len(d) : d[i].k = k
    ELSE 0

DictValues(d) == [i \in 1..Len(d) |-> d[i].v]

(***************************************************************************)
(* services/deal_service.py: find_cheapest_variants                        *)
(***************************************************************************)
\* unique_key = f"{product.match_key}|{product.site}"
UniqueKey(d) == <<d.key, d.site>>

\* the comparison of line 118: the later deal replaces the kept one
ReplacesOnTieMutant(new, kept) == new.ppkg <= kept.ppkg
KeepsDearerMutant(new, kept) == new.ppkg > kept.ppkg
NeverReplacesMutant(new, kept) == FALSE
IsCheaper(new, kept) == new.ppkg < kept.ppkg

\* step 1, one iteration of the loop of lines 109-119
DedupStep(u, d) ==
    LET p == DictPos(u, UniqueKey(d)) IN
    IF p = 0 THEN Append(u, [k |-> UniqueKey(d), v |-> d])
    ELSE IF IsCheaper(d, u[p].v) THEN [u EXCEPT ![p].v = d]
    ELSE u

RECURSIVE DedupUpTo(_, _)
DedupUpTo(ds, n) == IF n = 0 THEN << >> ELSE DedupStep(DedupUpTo(ds, n - 1), ds[n])

Deduplicate(ds) == DedupUpTo(ds, Len(ds))

\* step 2, one iteration of the loop of lines 125-126 (a defaultdict(list))
GroupStep(g, d) ==
    LET p == DictPos(g, d.key) IN
    IF p = 0 THEN Append(g, [k |-> d.key, v |-> <<d>>])
    ELSE [g EXCEPT ![p].v = Append(@, d)]

RECURSIVE GroupUpTo(_, _)
GroupUpTo(vals, n) == IF n = 0 THEN << >> ELSE GroupStep(GroupUpTo(vals, n - 1), vals[n])

GroupByMatchKey(u) == GroupUpTo(DictValues(u), Len(u))

PpkgOf(x) == x.ppkg

\* step 3, line 131: variants.sort(key=lambda x: x[2])
UnsortedVariantsMutant(variants) == variants
SortVariants(variants) ==
    StableSort(variants, [i \in 1..Len(variants) |-> PpkgOf(variants[i])])

SortGroups(g) == [i \in 1..Len(g) |-> [k |-> g[i].k, v |-> SortVariants(g[i].v)]]

\* lines 133-140: the cheapest of a group and the other sites' info
OtherSites(variants) ==
    [j \in 1..(Len(variants) - 1) |->
        [site |-> Capitalize(variants[j + 1].site),
         ppkg |-> variants[j + 1].ppkg,
         url  |-> variants[j + 1].id]]

CheapestOfGroup(variants) ==
    [product |-> variants[1], ppkg |-> variants[1].ppkg, other_sites |-> OtherSites(variants)]

\* lines 129-143
PickCheapest(g) ==
    LET res == [i \in 1..Len(g) |-> CheapestOfGroup(g[i].v)]
    IN StableSort(res, [i \in 1..Len(res) |-> PpkgOf(res[i])])

find_cheapest_variants(ds) == PickCheapest(SortGroups(GroupByMatchKey(Deduplicate(ds))))

(***************************************************************************)
(* bot/formatter.py: format_cheapest_variant_alert, the "Available on" list *)
(***************************************************************************)
SiteOrderZooplus == 0
SiteOrderBitiba == 1
SiteOrderZoo24 == 4
SiteOrderDefault == 99

\* site_order.get(x[0], 99)
SiteOrderIgnoredMutant(entry) == SiteOrderDefault
SiteOrderOf(entry) ==
    CASE entry.site = "Zooplus" -> SiteOrderZooplus
      [] entry.site = "Bitiba"  -> SiteOrderBitiba
      [] entry.site = "Zoo24"   -> SiteOrderZoo24
      [] OTHER                  -> SiteOrderDefault

\* lines 80-88
AvailableOn(result) ==
    LET site_name == IF result.product.site = "" THEN "Store"
                     ELSE Capitalize(result.product.site)
        first == [site |-> site_name, ppkg |-> result.ppkg, url |-> result.product.id]
        listed == <<first>> \o result.other_sites
    IN StableSort(listed, [i \in 1..Len(listed) |-> SiteOrderOf(listed[i])])

(***************************************************************************)
(* Specification of the matching engine: the input is drawn in Init, the   *)
(* actions apply find_cheapest_variants and format one of its results.     *)
(***************************************************************************)
MatchIdle ==
    /\ mpc = "input"
    /\ unique_deals = << >>
    /\ grouped_variants = << >>
    /\ cheapest_deals = << >>
    /\ shown = 0
    /\ all_sites = << >>

\* the state of the run coordinator while no run has been started
RunIdle ==
    /\ is_running = FALSE
    /\ main_pc = "idle"
    /\ site_pc = << >> /\ scan = << >> /\ page = << >> /\ seen_ids = << >>
    /\ chunk = << >> /\ todo = << >> /\ raised = << >> /\ handed = << >>
    /\ users = << >> /\ products = {} /\ price_history = << >>
    /\ alert_rows = {} /\ outbox = << >>
    /\ total_stats = << >> /\ chunk_stats = << >> /\ completed = << >>

\* no tile is being converted
ParseIdle ==
    /\ tile = << >>
    /\ parse_pc = "input"
    /\ emitted = << >>

\* the state of the Zooroyal site task before _scrape_site is called
ZrIdle ==
    /\ zr_pc = "start"
    /\ zr_scan = "brand"
    /\ zr_max_pages = 0
    /\ producer_pc = << >> /\ page_num = << >>
    /\ semaphore = 0
    /\ queue = << >>
    /\ active_producers = 0
    /\ zr_seen_ids = {}
    /\ zr_chunk = << >>
    /\ zr_handed = << >>

\* no brand scan is being followed
ScanIdle ==
    /\ bs_adapter = "" /\ bs_max_price_per_kg = << >> /\ bs_max_pages = << >>
    /\ bs_pc = "idle" /\ bs_page_num = 0 /\ bs_seen_ids = {}
    /\ exceeded_price_count = 0 /\ bs_chunk = << >> /\ bs_products = << >>

\* no run_check call has been made and the tables are empty
OverlapIdle ==
    /\ run_pc = << >> /\ batch = << >> /\ idx = << >> /\ row_found = << >>
    /\ pending = << >> /\ writer = ""
    /\ product_rows = << >> /\ price_rows = << >> /\ save_errors = << >>
    /\ batch_stats = << >>

\* no page has been fetched
FetchIdle ==
    /\ fetch_pc = "idle" /\ fetch_adapter = "" /\ fetch_path = "" /\ fetch_result = ""
    /\ open_contexts = 0 /\ open_pages = 0 /\ fetch_count = 0

\* no page is being converted
ConvertIdle ==
    /\ cv_adapter = "" /\ cv_tiles = << >> /\ cv_idx = 0 /\ cv_products = << >>
    /\ cv_pc = "break"

\* no call of send_alerts_grouped
AlertsIdle ==
    /\ sa_pc = << >> /\ sa_deals = << >> /\ sa_idx = << >>
    /\ alerts_sent_rows = {} /\ delivered = << >>

\* no UserPreferences row
PrefsIdle ==
    /\ brands = << >> /\ watched_brands = << >> /\ pref_last = << >> /\ pref_calls = 0

InitMatch ==
    /\ deals \in DealInputs(MatchUniverse) \cup DealInputs(AlertUniverse)
    /\ MatchIdle
    /\ PrefsIdle
    /\ AlertsIdle
    /\ ConvertIdle
    /\ FetchIdle
    /\ OverlapIdle
    /\ ScanIdle
    /\ RunIdle
    /\ ZrIdle
    /\ ParseIdle

InitOrder ==
    /\ deals \in DealInputs(OrderUniverse)
    /\ MatchIdle
    /\ PrefsIdle
    /\ AlertsIdle
    /\ ConvertIdle
    /\ FetchIdle
    /\ OverlapIdle
    /\ ScanIdle
    /\ RunIdle
    /\ ZrIdle
    /\ ParseIdle

FindCheapestVariants ==
    /\ mpc = "input"
    /\ mpc' = "matched"
    /\ unique_deals' = Deduplicate(deals)
    /\ grouped_variants' = SortGroups(GroupByMatchKey(unique_deals'))
    /\ cheapest_deals' = PickCheapest(grouped_variants')
    /\ UNCHANGED <<deals, shown, all_sites, notMatchVars>>

FormatCheapestVariantAlert ==
    /\ mpc = "matched"
    /\ \E i \in 1..Len(cheapest_deals) :
          /\ shown' = i
          /\ all_sites' = AvailableOn(cheapest_deals[i])
    /\ UNCHANGED <<deals, mpc, unique_deals, grouped_variants, cheapest_deals,
                   notMatchVars>>

NextMatch == FindCheapestVariants \/ FormatCheapestVariantAlert

SpecMatch == InitMatch /\ [][NextMatch]_vars

SpecOrder == InitOrder /\ [][NextMatch]_vars

(***************************************************************************)
(* Claims about the matching engine                                        *)
(***************************************************************************)
Range(s) == {s[i] : i \in 1..Len(s)}

Min(S) == CHOOSE x \in S : \A y \in S : x <= y

InputOf(k, st) == {d \in Range(deals) : d.key = k /\ d.site = st}
InputOfKey(k) == {d \in Range(deals) : d.key = k}
InputKeys == {d.key : d \in Range(deals)}
MinPpkg(S) == Min({d.ppkg : d \in S})

\* C2: after the deduplication step there is at most one offer per
\* (matchKey, site), and it is an input offer with the lowest price-per-kg of
\* the input offers with that matchKey and site.
C2_DedupKeepsCheapestPerSite ==
    mpc = "matched" =>
        /\ \A i, j \in 1..Len(unique_deals) :
              (unique_deals[i].v.key = unique_deals[j].v.key
               /\ unique_deals[i].v.site = unique_deals[j].v.site) => i = j
        /\ \A i \in 1..Len(unique_deals) :
              LET v == unique_deals[i].v IN
              /\ v \in Range(deals)
              /\ v.ppkg = MinPpkg(InputOf(v.key, v.site))

C2_Witness ==
    /\ mpc = "matched"
    /\ \E a, b \in Range(deals) :
          a.key = b.key /\ a.site = b.site /\ a.id < b.id /\ b.ppkg < a.ppkg
    /\ Len(unique_deals) < Len(deals)

ResultsOfKey(k) == {i \in 1..Len(cheapest_deals) : cheapest_deals[i].product.key = k}

\* C3: for every match key of the input there is exactly one result; its
\* primary offer has the minimum price-per-kg of the key's input offers; its
\* alternates are one entry for every other site of the key (never the
\* primary's site), each with that site's name and that site's lowest
\* price-per-kg, pointing at an input offer of that site with that price.
C3_OneResultPerKeyWithAlternates ==
    mpc = "matched" =>
        /\ Len(cheapest_deals) = Cardinality(InputKeys)
        /\ \A k \in InputKeys :
              /\ Cardinality(ResultsOfKey(k)) = 1
              /\ \A i \in ResultsOfKey(k) :
                    LET r == cheapest_deals[i]
                        others == {d.site : d \in InputOfKey(k)} \ {r.product.site}
                    IN
                    /\ r.product \in InputOfKey(k)
                    /\ r.ppkg = r.product.ppkg
                    /\ r.ppkg = MinPpkg(InputOfKey(k))
                    /\ Len(r.other_sites) = Cardinality(others)
                    /\ {o.site : o \in Range(r.other_sites)} = {Capitalize(st) : st \in others}
                    /\ \A o \in Range(r.other_sites) :
                          \E d \in InputOfKey(k) :
                              /\ d.site \in others
                              /\ Capitalize(d.site) = o.site
                              /\ d.id = o.url
                              /\ d.ppkg = o.ppkg
                              /\ o.ppkg = MinPpkg(InputOf(k, d.site))

C3_Witness ==
    /\ mpc = "matched"
    /\ Cardinality(InputKeys) = 2
    /\ \E i \in 1..Len(cheapest_deals) :
          /\ Len(cheapest_deals[i].other_sites) = 1
          /\ cheapest_deals[i].other_sites[1].ppkg > cheapest_deals[i].ppkg

\* the first input offer among the cheapest ones of S
FirstCheapest(S) ==
    CHOOSE d \in S : /\ d.ppkg = MinPpkg(S)
                     /\ \A e \in S : e.ppkg = MinPpkg(S) => d.id <= e.id

DedupKeepsFirstOnTie ==
    \A i \in 1..Len(unique_deals) :
        LET v == unique_deals[i].v IN v = FirstCheapest(InputOf(v.key, v.site))

\* C4 as claimed: on equal price-per-kg the offer that comes first in the
\* input is kept, in the deduplication and in the choice of the primary offer.
C4_Original_FirstInInputWins ==
    mpc = "matched" =>
        /\ DedupKeepsFirstOnTie
        /\ \A i \in 1..Len(cheapest_deals) :
              cheapest_deals[i].product = FirstCheapest(InputOfKey(cheapest_deals[i].product.key))

\* position in the input of the first offer with that match key and site
FirstSeen(k, st) == Min({d.id : d \in InputOf(k, st)})

Survivors(k) == {unique_deals[i].v : i \in {j \in 1..Len(unique_deals) : unique_deals[j].v.key = k}}

\* C4 as amended: the deduplication keeps the first of the equally cheap
\* offers of a (matchKey, site); among the surviving offers of a key that tie
\* for the lowest price-per-kg, the primary is the one whose (matchKey, site)
\* pair was seen first in the input, not the one that itself comes first.
C4_TieBreakByFirstSeenPair ==
    mpc = "matched" =>
        /\ DedupKeepsFirstOnTie
        /\ \A i \in 1..Len(cheapest_deals) :
              LET p == cheapest_deals[i].product IN
              /\ p \in Survivors(p.key)
              /\ \A q \in Survivors(p.key) :
                    (q.ppkg = p.ppkg /\ q # p) =>
                        FirstSeen(p.key, p.site) < FirstSeen(q.key, q.site)

C4_Witness ==
    /\ mpc = "matched"
    /\ Len(cheapest_deals) = 1
    /\ \E a, b \in Range(deals) :
          /\ a.key = b.key /\ a.site # b.site /\ a.ppkg = b.ppkg
          /\ a.id < b.id
          /\ cheapest_deals[1].product = b
          /\ a.ppkg = cheapest_deals[1].ppkg

Perms(n) == {p \in [1..n -> 1..n] : \A i, j \in 1..n : p[i] = p[j] => i = j}

Permuted(ds, p) == [i \in 1..Len(ds) |-> ds[p[i]]]

\* C5 as claimed: every ordering of the same offers gives the same result list.
C5_Original_OrderIndependent ==
    mpc = "matched" =>
        \A p \in Perms(Len(deals)) :
            find_cheapest_variants(Permuted(deals, p)) = cheapest_deals

\* what a result list says regardless of ties: per match key the primary's
\* price-per-kg and the (site, price-per-kg) pairs of the alternates and primary
Summary(res) ==
    {[key  |-> res[i].product.key,
      ppkg |-> res[i].ppkg,
      offers |-> {<<o.site, o.ppkg>> : o \in Range(res[i].other_sites)}
                   \cup {<<Capitalize(res[i].product.site), res[i].ppkg>>}]
        : i \in 1..Len(res)}

NoEqualPpkg(ds) == \A i, j \in 1..Len(ds) : ds[i].ppkg = ds[j].ppkg => i = j

\* C5 as amended: every ordering of the same offers gives one result per
\* match key with the same lowest price-per-kg and the same set of
\* (site, price-per-kg) offers; the result lists are equal when no two offers
\* have the same price-per-kg.
C5_OrderIndependentUpToTies ==
    mpc = "matched" =>
        \A p \in Perms(Len(deals)) :
            LET other == find_cheapest_variants(Permuted(deals, p)) IN
            /\ Len(other) = Len(cheapest_deals)
            /\ Summary(other) = Summary(cheapest_deals)
            /\ NoEqualPpkg(deals) => other = cheapest_deals

C5_Witness ==
    /\ mpc = "matched"
    /\ Len(deals) = 2
    /\ NoEqualPpkg(deals)
    /\ deals[1].key = deals[2].key
    /\ deals[1].site # deals[2].site
    /\ deals[1].ppkg > deals[2].ppkg
    /\ cheapest_deals[1].product = deals[2]

\* the claimed preference: Zooplus, Bitiba, Zoo24, then every other site
PreferenceRank(site_name) ==
    CASE site_name = "Zooplus" -> 1
      [] site_name = "Bitiba"  -> 2
      [] site_name = "Zoo24"   -> 3
      [] OTHER                 -> 4

InPreferenceOrder(entries) ==
    \A i, j \in 1..Len(entries) :
        i < j => PreferenceRank(entries[i].site) <= PreferenceRank(entries[j].site)

\* C6 as claimed: the alternates of a result are in site preference order.
C6_Original_AlternatesInPreferenceOrder ==
    mpc = "matched" =>
        \A i \in 1..Len(cheapest_deals) : InPreferenceOrder(cheapest_deals[i].other_sites)

\* the list format_cheapest_variant_alert starts from: primary, then alternates
Inserted(r) ==
    <<[site |-> Capitalize(r.product.site), ppkg |-> r.ppkg, url |-> r.product.id]>>
        \o r.other_sites

PosIn(s, x) == CHOOSE i \in 1..Len(s) : s[i] = x

\* C6 as amended: the alternates of a result are in ascending price-per-kg
\* order; the site list of the alert message (the primary's site and the
\* alternates) is in the fixed site preference order, the sites without an
\* entry last and in their insertion order (primary first, then the
\* alternates as the result lists them).
C6_AlertListInPreferenceOrder ==
    /\ mpc = "matched" =>
          \A i \in 1..Len(cheapest_deals) :
              \A a, b \in 1..Len(cheapest_deals[i].other_sites) :
                  a < b => cheapest_deals[i].other_sites[a].ppkg
                              <= cheapest_deals[i].other_sites[b].ppkg
    /\ shown # 0 =>
          LET ins == Inserted(cheapest_deals[shown]) IN
          /\ Len(all_sites) = Len(ins)
          /\ Range(all_sites) = Range(ins)
          /\ InPreferenceOrder(all_sites)
          /\ \A i, j \in 1..Len(all_sites) :
                (i < j /\ PreferenceRank(all_sites[i].site) = PreferenceRank(all_sites[j].site))
                    => PosIn(ins, all_sites[i]) < PosIn(ins, all_sites[j])

C6_Witness ==
    /\ shown # 0
    /\ Len(all_sites) = 3
    /\ all_sites[1].site = "Zooplus"
    /\ all_sites[2].site = "Fressnapf"
    /\ all_sites[3].site = "Zooroyal"
    /\ cheapest_deals[shown].product.site = "fressnapf"
    /\ cheapest_deals[shown].other_sites[1].site = "Zooroyal"


(***************************************************************************)
(* One run: tracker.run_check with its handle_chunk callback,              *)
(* scraper.scrape_all_async and _scrape_site, the scans of                 *)
(* BeautifulSoupScraper (the Zooplus and Bitiba adapters),                 *)
(* tracker.process_products and alert_service.send_alerts_grouped.         *)
(* A site task takes one step per await: a page fetch with the parse and   *)
(* the seen_ids filter that follow it, the batch save to the database,     *)
(* every Telegram send.                                                    *)
(***************************************************************************)
\* max_pages of scrape_brand_products
MaxPages == 2

\* the price per kg of an offer that has none (Python's None, among integers)
NoPpkg == -1

\* the site tasks of the gather: the two BeautifulSoupScraper adapters
RunSites == {"zooplus", "bitiba"}

\* what the two sites sell: the same Leonardo variant at two prices, and one
\* more offer each (the second Bitiba offer has no price per kg)
Catalog(st) ==
    IF st = "zooplus"
    THEN <<[id |-> "zooplus:1", site |-> "zooplus", brand |-> "Leonardo",
            key |-> "leonardo|6x400g", current_price |-> 1080, ppkg |-> 450],
           [id |-> "zooplus:2", site |-> "zooplus", brand |-> "MAC's",
            key |-> "macs|800g", current_price |-> 328, ppkg |-> 410]>>
    ELSE <<[id |-> "bitiba:1", site |-> "bitiba", brand |-> "Leonardo",
            key |-> "leonardo|6x400g", current_price |-> 984, ppkg |-> 410],
           [id |-> "bitiba:2", site |-> "bitiba", brand |-> "MAC's",
            key |-> "macs|800g", current_price |-> 349, ppkg |-> NoPpkg]>>

ExternalIds == {Catalog(st)[i].id : st \in RunSites, i \in 1..2}

\* what _parse_products_from_html can return for a fetched page of a site
PageChoices(st) ==
    {<< >>, <<Catalog(st)[1]>>, <<Catalog(st)[2]>>, <<Catalog(st)[1], Catalog(st)[2]>>}

\* what a fetch gives: no html (the fetch failed), or a page and its products
FetchOutcomes(st) ==
    {[html |-> FALSE, products |-> << >>]}
        \cup {[html |-> TRUE, products |-> ps] : ps \in PageChoices(st)}

\* the UserPreferences table of a run: one user, with a loose or a tight filter
UserConfigs ==
    {<<[chat_id |-> "u1", max_price_per_kg |-> 1000, brands |-> {"leonardo", "MAC's"}]>>,
     <<[chat_id |-> "u1", max_price_per_kg |-> 430, brands |-> {"Leonardo"}]>>}

\* UserPreferences.normalize_brand on the brand names of the model
NormalizeBrand(b) ==
    CASE b = "Leonardo" -> "leonardo"
      [] b = "MAC's"    -> "mac's"
      [] b = None       -> ""
      [] OTHER          -> b

\* Python's "a in b" on the normalized brand names of the model, none of
\* which is a proper substring of another
IsSubstring(a, b) == a = b

\* UserPreferences.should_notify_for_brand
ShouldNotifyForBrand(prefs, brand) ==
    /\ brand # None
    /\ \E b \in prefs.brands :
          LET b_normalized == NormalizeBrand(b)
              brand_normalized == NormalizeBrand(brand)
          IN \/ b_normalized = brand_normalized
             \/ IsSubstring(b_normalized, brand_normalized)
             \/ IsSubstring(brand_normalized, b_normalized)

\* "if p.external_id not in seen_ids"
AlwaysNewMutant(p, seen) == TRUE
IsNew(p, seen) == p.id \notin seen

\* the loop over the products of a page: the chunk of the unseen ones
RECURSIVE NewProducts(_, _)
NewProducts(ps, seen) ==
    IF ps = << >> THEN << >>
    ELSE IF IsNew(Head(ps), seen)
         THEN <<Head(ps)>> \o NewProducts(Tail(ps), seen \cup {Head(ps).id})
         ELSE NewProducts(Tail(ps), seen)

IdsOf(ps) == {ps[i].id : i \in 1..Len(ps)}

\* the chunk as the callback receives it: the reduced scan sets is_on_sale
Tagged(ps, sc) ==
    [i \in 1..Len(ps) |->
        [id |-> ps[i].id, site |-> ps[i].site, brand |-> ps[i].brand, key |-> ps[i].key,
         current_price |-> ps[i].current_price, ppkg |-> ps[i].ppkg,
         is_on_sale |-> (sc = "reduced")]]

HandedOf(ps, sc) == [i \in 1..Len(ps) |-> [scan |-> sc, id |-> ps[i].id]]

\* _scrape_site's "except Exception": the exception ends this site task only
UncaughtMutant(st, pcs) == [x \in DOMAIN pcs |-> IF pcs[x] = "done" THEN "done" ELSE "failed"]
CaughtInSite(st, pcs) == [pcs EXCEPT ![st] = "failed"]

\* _save_products_batch_sync: the offers that go to send_alerts_grouped.  An
\* offer with a price per kg always does; one without does when it is on sale
\* or its price dropped, and is then skipped by the filter of send_alerts_grouped.
ShouldAlert(o) == o.ppkg # NoPpkg \/ o.is_on_sale

\* send_alerts_grouped, lines 84-91: the brand and price filter of one user
PassesFilter(prefs, o) ==
    /\ ShouldNotifyForBrand(prefs, o.brand)
    /\ ~(o.ppkg = NoPpkg \/ o.ppkg > prefs.max_price_per_kg)

UserProducts(prefs, products_data) ==
    SelectSeq(products_data, LAMBDA o : PassesFilter(prefs, o))

\* send_alerts_grouped, lines 82-100: for every user the cheapest variants of
\* the products of this call, in the order the loops visit them
RECURSIVE AlertPlan(_, _)
AlertPlan(products_data, all_users) ==
    IF all_users = << >> THEN << >>
    ELSE LET prefs == Head(all_users)
             found == find_cheapest_variants(UserProducts(prefs, products_data))
         IN [i \in 1..Len(found) |-> [prefs |-> prefs, deal |-> found[i]]]
                \o AlertPlan(products_data, Tail(all_users))

\* the stats before anything is counted
NoStats == [total |-> 0, new_products |-> 0, on_sale |-> 0, alerts_sent |-> 0]

OverwriteStatsMutant(total, stats) == stats

\* handle_chunk: the four "total_stats[...] += chunk_stats[...]"
AddStats(total, stats) ==
    [total |-> total.total + stats.total,
     new_products |-> total.new_products + stats.new_products,
     on_sale |-> total.on_sale + stats.on_sale,
     alerts_sent |-> total.alerts_sent + stats.alerts_sent]

InitRun ==
    /\ deals = << >>
    /\ MatchIdle
    /\ PrefsIdle
    /\ AlertsIdle
    /\ ConvertIdle
    /\ FetchIdle
    /\ OverlapIdle
    /\ ScanIdle
    /\ ZrIdle
    /\ ParseIdle
    /\ is_running = FALSE
    /\ main_pc = "idle"
    /\ site_pc = [st \in RunSites |-> "brand_fetch"]
    /\ scan = [st \in RunSites |-> "brand"]
    /\ page = [st \in RunSites |-> 1]
    /\ seen_ids = [st \in RunSites |-> {}]
    /\ chunk = [st \in RunSites |-> << >>]
    /\ todo = [st \in RunSites |-> << >>]
    /\ raised = [st \in RunSites |-> FALSE]
    /\ handed = [st \in RunSites |-> << >>]
    /\ users \in UserConfigs
    /\ products = {}
    /\ price_history = [e \in ExternalIds |-> 0]
    /\ alert_rows = {}
    /\ outbox = << >>
    /\ total_stats = NoStats
    /\ chunk_stats = [st \in RunSites |-> NoStats]
    /\ completed = [st \in RunSites |-> << >>]

\* run_check up to the gather of scrape_all_async
RunCheck ==
    /\ main_pc = "idle"
    /\ is_running' = TRUE
    /\ main_pc' = "gather"
    /\ UNCHANGED <<siteVars, dbVars, statVars, notRunVars>>

\* scrape_brand_products, one iteration of the page loop, and the hand-over
\* of the chunk to the callback by _scrape_site
BrandFetch(st) ==
    /\ main_pc = "gather"
    /\ site_pc[st] = "brand_fetch"
    /\ \E fetched \in FetchOutcomes(st) :
          LET fresh == IF ~fetched.html THEN << >>
                       ELSE NewProducts(fetched.products, seen_ids[st]) IN
          IF fresh = << >>
          THEN \* no page, no products, or new_count == 0: the scan ends
               /\ site_pc' = [site_pc EXCEPT ![st] = "reduced_fetch"]
               /\ scan' = [scan EXCEPT ![st] = "reduced"]
               /\ seen_ids' = [seen_ids EXCEPT ![st] = {}]
               /\ UNCHANGED <<chunk, handed>>
          ELSE /\ site_pc' = [site_pc EXCEPT ![st] = "callback_save"]
               /\ seen_ids' = [seen_ids EXCEPT ![st] = @ \cup IdsOf(fresh)]
               /\ chunk' = [chunk EXCEPT ![st] = Tagged(fresh, "brand")]
               /\ handed' = [handed EXCEPT ![st] = @ \o HandedOf(fresh, "brand")]
               /\ UNCHANGED scan
    /\ UNCHANGED <<page, todo, raised, is_running, main_pc, dbVars, statVars, notRunVars>>

\* scrape_reduced_products with brands = None: one fetch, one chunk
ReducedFetch(st) ==
    /\ main_pc = "gather"
    /\ site_pc[st] = "reduced_fetch"
    /\ \E fetched \in FetchOutcomes(st) :
          LET fresh == IF ~fetched.html THEN << >>
                       ELSE NewProducts(fetched.products, seen_ids[st]) IN
          IF fresh = << >>
          THEN /\ site_pc' = [site_pc EXCEPT ![st] = "done"]
               /\ UNCHANGED <<seen_ids, chunk, handed>>
          ELSE /\ site_pc' = [site_pc EXCEPT ![st] = "callback_save"]
               /\ seen_ids' = [seen_ids EXCEPT ![st] = @ \cup IdsOf(fresh)]
               /\ chunk' = [chunk EXCEPT ![st] = Tagged(fresh, "reduced")]
               /\ handed' = [handed EXCEPT ![st] = @ \o HandedOf(fresh, "reduced")]
    /\ UNCHANGED <<scan, page, todo, raised, is_running, main_pc, dbVars, statVars,
                   notRunVars>>


\* handle_chunk -> process_products -> _save_products_batch_sync (one
\* transaction), up to the start of send_alerts_grouped
SaveProductsBatch(st) ==
    /\ main_pc = "gather"
    /\ site_pc[st] = "callback_save"
    /\ products' = products \cup IdsOf(chunk[st])
    /\ price_history' = [e \in ExternalIds |->
            price_history[e] + Cardinality({i \in 1..Len(chunk[st]) : chunk[st][i].id = e})]
    /\ LET products_to_alert == SelectSeq(chunk[st], ShouldAlert) IN
       todo' = [todo EXCEPT ![st] = AlertPlan(products_to_alert, users)]
    /\ chunk_stats' = [chunk_stats EXCEPT ![st] =
            [total |-> Len(chunk[st]),
             new_products |-> Cardinality(IdsOf(chunk[st]) \ products),
             on_sale |-> Len(SelectSeq(chunk[st], LAMBDA p : p.is_on_sale)),
             alerts_sent |-> 0]]
    /\ site_pc' = [site_pc EXCEPT ![st] = "callback_alerts"]
    /\ UNCHANGED <<scan, page, seen_ids, chunk, raised, handed, users, alert_rows, outbox,
                   total_stats, completed, is_running, main_pc, notRunVars>>

\* send_alerts_grouped, one iteration of the loop over cheapest_deals: the
\* AlertSent lookup, the send, and the AlertSent row after a successful send
SendAlert(st) ==
    /\ main_pc = "gather"
    /\ site_pc[st] = "callback_alerts"
    /\ todo[st] # << >>
    /\ LET prefs == Head(todo[st]).prefs
           found == Head(todo[st]).deal
           row   == [product_id |-> found.product.id,
                     price_at_alert |-> found.product.current_price,
                     chat_id |-> prefs.chat_id]
       IN IF row \in alert_rows
          THEN UNCHANGED <<alert_rows, outbox, chunk_stats>>
          ELSE \E success \in BOOLEAN :
                  IF success
                  THEN /\ alert_rows' = alert_rows \cup {row}
                       /\ outbox' = Append(outbox,
                              [chat_id |-> prefs.chat_id, product |-> found.product.id,
                               key |-> found.product.key, site |-> found.product.site,
                               ppkg |-> found.ppkg, other_sites |-> found.other_sites])
                       /\ chunk_stats' = [chunk_stats EXCEPT ![st].alerts_sent = @ + 1]
                  ELSE UNCHANGED <<alert_rows, outbox, chunk_stats>>
    /\ todo' = [todo EXCEPT ![st] = Tail(@)]
    /\ UNCHANGED <<site_pc, scan, page, seen_ids, chunk, raised, handed,
                   users, products, price_history, total_stats, completed,
                   is_running, main_pc, notRunVars>>

\* process_products returns, handle_chunk adds the chunk's stats to the
\* run's and returns, and the scan that yielded the chunk is resumed
FinishChunk(st) ==
    /\ main_pc = "gather"
    /\ site_pc[st] = "callback_alerts"
    /\ todo[st] = << >>
    /\ total_stats' = AddStats(total_stats, chunk_stats[st])
    /\ completed' = [completed EXCEPT ![st] = Append(@, chunk_stats[st])]
    /\ chunk_stats' = [chunk_stats EXCEPT ![st] = NoStats]
    /\ chunk' = [chunk EXCEPT ![st] = << >>]
    /\ IF scan[st] = "brand"
       THEN IF page[st] < MaxPages
            THEN /\ page' = [page EXCEPT ![st] = @ + 1]
                 /\ site_pc' = [site_pc EXCEPT ![st] = "brand_fetch"]
                 /\ UNCHANGED <<scan, seen_ids>>
            ELSE /\ site_pc' = [site_pc EXCEPT ![st] = "reduced_fetch"]
                 /\ scan' = [scan EXCEPT ![st] = "reduced"]
                 /\ seen_ids' = [seen_ids EXCEPT ![st] = {}]
                 /\ UNCHANGED page
       ELSE /\ site_pc' = [site_pc EXCEPT ![st] = "done"]
            /\ UNCHANGED <<scan, page, seen_ids>>
    /\ UNCHANGED <<todo, raised, handed, is_running, main_pc, dbVars, notRunVars>>

\* an exception in a scan or in the callback of a site task
SiteRaise(st) ==
    /\ main_pc = "gather"
    /\ site_pc[st] \notin {"done", "failed"}
    /\ site_pc' = CaughtInSite(st, site_pc)
    /\ raised' = [raised EXCEPT ![st] = TRUE]
    /\ chunk' = [chunk EXCEPT ![st] = << >>]
    /\ todo' = [todo EXCEPT ![st] = << >>]
    /\ chunk_stats' = [chunk_stats EXCEPT ![st] = NoStats]
    /\ UNCHANGED <<scan, page, seen_ids, handed, is_running, main_pc, dbVars,
                   total_stats, completed, notRunVars>>

\* asyncio.gather(..., return_exceptions=True) returns when every task ended
GatherReturns ==
    /\ main_pc = "gather"
    /\ \A st \in RunSites : site_pc[st] \in {"done", "failed"}
    /\ main_pc' = "closing"
    /\ UNCHANGED <<is_running, siteVars, dbVars, statVars, notRunVars>>

\* browser.close(), whose exception scrape_all_async catches; run_check
\* returns and its finally clears the flag
CloseBrowser ==
    /\ main_pc = "closing"
    /\ \E closed \in BOOLEAN : main_pc' = "returned"
    /\ is_running' = FALSE
    /\ UNCHANGED <<siteVars, dbVars, statVars, notRunVars>>

NextRun ==
    \/ RunCheck
    \/ \E st \in RunSites :
          \/ BrandFetch(st)
          \/ ReducedFetch(st)
          \/ SaveProductsBatch(st)
          \/ SendAlert(st)
          \/ FinishChunk(st)
          \/ SiteRaise(st)
    \/ GatherReturns
    \/ CloseBrowser

SpecRun == InitRun /\ [][NextRun]_vars


(***************************************************************************)
(* Claims about one run                                                    *)
(***************************************************************************)
\* C1: a recipient who has been alerted for an offer is not alerted, later in
\* the same run, for a more expensive offer of the same match key on another
\* site (the cross-site match would show that site as an alternate at most).
C1_CheapestSiteOnlyAlerted ==
    \A i, j \in 1..Len(outbox) :
        (/\ i < j
         /\ outbox[i].chat_id = outbox[j].chat_id
         /\ outbox[i].key = outbox[j].key
         /\ outbox[i].site # outbox[j].site)
            => outbox[j].ppkg <= outbox[i].ppkg

Terminal == {"done", "failed"}

\* the next step of a site task that is not in the batch save
SiteStep(st) ==
    \/ BrandFetch(st) \/ ReducedFetch(st) \/ SendAlert(st) \/ FinishChunk(st)

\* C7: a site task fails only by an exception of its own; whatever the other
\* tasks did, a task that has not ended is in the batch save of its chunk or
\* can take its next step; the gather returns only when every task has ended,
\* and then every task that raised nothing is done, with every chunk it
\* yielded handed over and saved; the run returns normally (the flag is
\* cleared).
C7_SiteFailureIsIsolated ==
    /\ \A st \in RunSites : site_pc[st] = "failed" <=> raised[st]
    /\ \A st \in RunSites :
          (main_pc = "gather" /\ site_pc[st] \notin Terminal) =>
              (site_pc[st] = "callback_save" \/ ENABLED SiteStep(st))
    /\ main_pc \in {"closing", "returned"} =>
          \A st \in RunSites :
              /\ site_pc[st] \in Terminal
              /\ ~raised[st] =>
                    /\ site_pc[st] = "done"
                    /\ chunk[st] = << >> /\ todo[st] = << >>
                    /\ \A i \in 1..Len(handed[st]) : handed[st][i].id \in products
    /\ main_pc = "returned" => ~is_running

\* zooplus raised inside the callback (its chunk was handed over, not saved);
\* bitiba went through both scans, and the run returned
C7_Witness ==
    /\ main_pc = "returned"
    /\ raised["zooplus"] /\ ~raised["bitiba"]
    /\ handed["zooplus"] # << >>
    /\ \A i \in 1..Len(handed["zooplus"]) : handed["zooplus"][i].id \notin products
    /\ site_pc["bitiba"] = "done"
    /\ \E i, j \in 1..Len(handed["bitiba"]) :
          handed["bitiba"][i].scan = "brand" /\ handed["bitiba"][j].scan = "reduced"

\* C9 as claimed: no external id is handed to the callback twice by a site,
\* neither within a scan nor by the brand scan and again by the reduced scan.
C9_Original_OncePerRun ==
    \A st \in RunSites : \A i, j \in 1..Len(handed[st]) :
        handed[st][i].id = handed[st][j].id => i = j

\* C9 as amended: no external id is handed to the callback twice by the same
\* scan of a site; the chunk in the callback is the one handed over last; an
\* external id is handed over at most once per scan, so at most twice.
C9_OncePerScan ==
    \A st \in RunSites :
        /\ \A i, j \in 1..Len(handed[st]) :
              (handed[st][i].id = handed[st][j].id
               /\ handed[st][i].scan = handed[st][j].scan) => i = j
        /\ \A i \in 1..Len(chunk[st]) :
              LET h == handed[st][Len(handed[st]) - Len(chunk[st]) + i] IN
              h.id = chunk[st][i].id /\ (h.scan = "reduced") = chunk[st][i].is_on_sale
        /\ \A i, j \in 1..Len(handed[st]) :
              (i < j /\ handed[st][i].scan # handed[st][j].scan)
                  => handed[st][i].scan = "brand"

\* two pages of the brand scan and the reduced scan, the reduced scan handing
\* over an offer the brand scan had handed over
C9_Witness ==
    /\ site_pc["zooplus"] = "done"
    /\ handed["zooplus"] = <<[scan |-> "brand", id |-> "zooplus:1"],
                             [scan |-> "brand", id |-> "zooplus:2"],
                             [scan |-> "reduced", id |-> "zooplus:1"]>>
    /\ price_history["zooplus:1"] = 2


(***************************************************************************)
(* The Zooroyal site task: _scrape_site over ZooroyalScraper.              *)
(* scrape_brand_products starts one producer task per brand slug; a        *)
(* producer iterates _scrape_single_brand under the semaphore and puts     *)
(* every chunk, and at its end a None marker, into the queue; the consumer *)
(* takes the items one by one and yields the unseen offers of a chunk to   *)
(* _scrape_site, which awaits the callback before it resumes the consumer. *)
(***************************************************************************)
MAX_CONCURRENT_BRANDS == 3

\* brand slugs of BRAND_SLUGS, and the ones _get_brand_slugs returns when
\* two brands are scanned
Slugs == {"animonda", "bozita", "catz-finefood", "macs"}

TwoSlugs == {"animonda", "bozita"}

AlwaysAcquiredMutant(permits) == TRUE

\* asyncio.Semaphore: acquire() returns at once while a permit is free
Acquirable(permits) == permits > 0

NoMarkerMutant(slug, q) ==
    /\ semaphore' = semaphore + 1
    /\ queue' = q
    /\ producer_pc' = [producer_pc EXCEPT ![slug] = "done"]
    /\ UNCHANGED page_num

MarkerBeforeEndMutant(slug, q) ==
    /\ queue' = Append(q, [kind |-> "None", slug |-> slug, page |-> 0, ids |-> << >>])
    /\ producer_pc' = [producer_pc EXCEPT ![slug] = "ready"]
    /\ UNCHANGED <<semaphore, page_num>>

\* what a page fetch and the conversion of its tiles give: no tiles at all,
\* tiles that are all dropped, or a chunk of offers (their external ids)
ZrFetchOutcomes ==
    {[raw |-> FALSE, ids |-> << >>], [raw |-> TRUE, ids |-> << >>],
     [raw |-> TRUE, ids |-> <<"zr:1">>], [raw |-> TRUE, ids |-> <<"zr:2">>]}

\* the unseen external ids of a chunk, in the chunk's order
RECURSIVE Unseen(_, _)
Unseen(ids, seen) ==
    IF ids = << >> THEN << >>
    ELSE IF Head(ids) \in seen THEN Unseen(Tail(ids), seen)
         ELSE <<Head(ids)>> \o Unseen(Tail(ids), seen \cup {Head(ids)})

SeqRange(s) == {s[i] : i \in 1..Len(s)}

\* the None of "await queue.put(None)"
Marker(slug) == [kind |-> "None", slug |-> slug, page |-> 0, ids |-> << >>]

ChunkItem(slug, n, ids) == [kind |-> "chunk", slug |-> slug, page |-> n, ids |-> ids]

PutFirstMutant(q, item) == <<item>> \o q

\* await queue.put(chunk): asyncio.Queue is first in, first out
Put(q, item) == Append(q, item)

InitZooroyal ==
    /\ deals = << >>
    /\ MatchIdle
    /\ PrefsIdle
    /\ AlertsIdle
    /\ ConvertIdle
    /\ FetchIdle
    /\ OverlapIdle
    /\ ScanIdle
    /\ RunIdle
    /\ ParseIdle
    /\ zr_pc = "start"
    /\ zr_scan = "brand"
    /\ zr_max_pages = MaxPages
    /\ producer_pc = [slug \in TwoSlugs |-> "none"]
    /\ page_num = [slug \in TwoSlugs |-> 1]
    /\ semaphore = 0
    /\ queue = << >>
    /\ active_producers = 0
    /\ zr_seen_ids = {}
    /\ zr_chunk = << >>
    /\ zr_handed = << >>

\* scrape_brand_products up to the consumer loop: the semaphore, the queue,
\* one task per slug
ZrStartBrandScan ==
    /\ zr_pc = "start"
    /\ zr_pc' = "get"
    /\ semaphore' = MAX_CONCURRENT_BRANDS
    /\ queue' = << >>
    /\ producer_pc' = [slug \in DOMAIN producer_pc |-> "created"]
    /\ page_num' = [slug \in DOMAIN producer_pc |-> 1]
    /\ active_producers' = Cardinality(DOMAIN producer_pc)
    /\ zr_seen_ids' = {}
    /\ UNCHANGED <<zr_scan, zr_chunk, zr_handed, zr_max_pages, notZrVars>>

\* _scrape_single_brand: "async with semaphore"
ProducerEnter(slug) ==
    /\ slug \in DOMAIN producer_pc
    /\ producer_pc[slug] = "created"
    /\ Acquirable(semaphore)
    /\ semaphore' = semaphore - 1
    /\ producer_pc' = [producer_pc EXCEPT ![slug] = "ready"]
    /\ UNCHANGED <<zr_pc, zr_scan, page_num, queue, active_producers, zr_seen_ids,
                   zr_chunk, zr_handed, zr_max_pages, notZrVars>>

\* _scrape_single_brand: the call of _fetch_and_extract_products for a page
ProducerStartFetch(slug) ==
    /\ slug \in DOMAIN producer_pc
    /\ producer_pc[slug] = "ready"
    /\ producer_pc' = [producer_pc EXCEPT ![slug] = "fetching"]
    /\ UNCHANGED <<zr_pc, zr_scan, page_num, semaphore, queue, active_producers,
                   zr_seen_ids, zr_chunk, zr_handed, zr_max_pages, notZrVars>>

\* the producer leaves _scrape_single_brand: the semaphore is released and
\* the finally clause puts the marker
ProducerLeaves(slug, q) ==
    /\ semaphore' = semaphore + 1
    /\ queue' = Append(q, Marker(slug))
    /\ producer_pc' = [producer_pc EXCEPT ![slug] = "done"]
    /\ UNCHANGED page_num

\* the fetch returns: the tiles are converted, the chunk is yielded to the
\* producer, which puts it into the queue, and the page loop goes on or ends
ProducerFinishFetch(slug) ==
    /\ slug \in DOMAIN producer_pc
    /\ producer_pc[slug] = "fetching"
    /\ \E got \in ZrFetchOutcomes :
          LET q == IF got.ids # << >>
                   THEN Put(queue, ChunkItem(slug, page_num[slug], got.ids))
                   ELSE queue
          IN IF \/ ~got.raw
                \/ (got.ids = << >> /\ page_num[slug] > 1)
                \/ page_num[slug] = zr_max_pages
             THEN ProducerLeaves(slug, q)
             ELSE /\ queue' = q
                  /\ page_num' = [page_num EXCEPT ![slug] = @ + 1]
                  /\ producer_pc' = [producer_pc EXCEPT ![slug] = "ready"]
                  /\ UNCHANGED semaphore
    /\ UNCHANGED <<zr_pc, zr_scan, active_producers, zr_seen_ids, zr_chunk, zr_handed,
                   zr_max_pages, notZrVars>>

\* the conversion of a tile raises: the producer's except clause logs it
ProducerFails(slug) ==
    /\ slug \in DOMAIN producer_pc
    /\ producer_pc[slug] = "fetching"
    /\ ProducerLeaves(slug, queue)
    /\ UNCHANGED <<zr_pc, zr_scan, active_producers, zr_seen_ids, zr_chunk, zr_handed,
                   zr_max_pages, notZrVars>>

\* the consumer: one iteration of "while active_producers > 0", and the
\* hand-over of the yielded chunk to the callback by _scrape_site
ZrGet ==
    /\ zr_pc = "get"
    /\ active_producers > 0
    /\ queue # << >>
    /\ queue' = Tail(queue)
    /\ LET item == Head(queue)
           fresh == Unseen(item.ids, zr_seen_ids)
       IN IF item.kind = "None"
          THEN /\ active_producers' = active_producers - 1
               /\ UNCHANGED <<zr_pc, zr_seen_ids, zr_chunk, zr_handed>>
          ELSE /\ zr_seen_ids' = zr_seen_ids \cup SeqRange(fresh)
               /\ IF fresh # << >>
                  THEN /\ zr_pc' = "callback"
                       /\ zr_chunk' = fresh
                       /\ zr_handed' = Append(zr_handed,
                              [scan |-> "brand", slug |-> item.slug, page |-> item.page,
                               ids |-> fresh])
                  ELSE UNCHANGED <<zr_pc, zr_chunk, zr_handed>>
               /\ UNCHANGED active_producers
    /\ UNCHANGED <<zr_scan, producer_pc, page_num, semaphore, zr_max_pages, notZrVars>>

\* the consumer loop ends and _scrape_site goes on to scrape_reduced_products
ZrBrandScanEnds ==
    /\ zr_pc = "get"
    /\ active_producers = 0
    /\ zr_pc' = "reduced_fetch"
    /\ zr_scan' = "reduced"
    /\ zr_seen_ids' = {}
    /\ UNCHANGED <<producer_pc, page_num, semaphore, queue, active_producers,
                   zr_chunk, zr_handed, zr_max_pages, notZrVars>>

\* scrape_reduced_products: one fetch, one chunk
ZrReducedFetch ==
    /\ zr_pc = "reduced_fetch"
    /\ \E got \in ZrFetchOutcomes :
          LET fresh == Unseen(got.ids, zr_seen_ids) IN
          IF fresh # << >>
          THEN /\ zr_pc' = "callback"
               /\ zr_seen_ids' = zr_seen_ids \cup SeqRange(fresh)
               /\ zr_chunk' = fresh
               /\ zr_handed' = Append(zr_handed,
                      [scan |-> "reduced", slug |-> "", page |-> 1, ids |-> fresh])
          ELSE /\ zr_pc' = "done"
               /\ UNCHANGED <<zr_seen_ids, zr_chunk, zr_handed>>
    /\ UNCHANGED <<zr_scan, producer_pc, page_num, semaphore, queue, active_producers,
                   zr_max_pages, notZrVars>>

\* handle_chunk returns (the batch is saved, the alerts are sent) and the
\* scan is resumed
ZrCallbackReturns ==
    /\ zr_pc = "callback"
    /\ zr_pc' = IF zr_scan = "brand" THEN "get" ELSE "done"
    /\ zr_chunk' = << >>
    /\ UNCHANGED <<zr_scan, producer_pc, page_num, semaphore, queue, active_producers,
                   zr_seen_ids, zr_handed, zr_max_pages, notZrVars>>

\* an exception in the callback or in the reduced scan, caught by _scrape_site
ZrRaise ==
    /\ zr_pc \in {"callback", "reduced_fetch"}
    /\ zr_pc' = "failed"
    /\ zr_chunk' = << >>
    /\ UNCHANGED <<zr_scan, producer_pc, page_num, semaphore, queue, active_producers,
                   zr_seen_ids, zr_handed, zr_max_pages, notZrVars>>

\* scrape_all_async: the site task has returned, asyncio.gather returns when
\* the other site tasks have returned as well, and the browser is closed
ZrCloseBrowser ==
    /\ zr_pc \in {"done", "failed"}
    /\ zr_pc' = "browser_closed"
    /\ UNCHANGED <<zr_scan, producer_pc, page_num, semaphore, queue, active_producers,
                   zr_seen_ids, zr_chunk, zr_handed, zr_max_pages, notZrVars>>

NextZooroyal ==
    \/ ZrStartBrandScan
    \/ \E slug \in Slugs :
          \/ ProducerEnter(slug)
          \/ ProducerStartFetch(slug)
          \/ ProducerFinishFetch(slug)
          \/ ProducerFails(slug)
    \/ ZrGet
    \/ ZrBrandScanEnds
    \/ ZrReducedFetch
    \/ ZrCallbackReturns
    \/ ZrRaise
    \/ ZrCloseBrowser

SpecZooroyal == InitZooroyal /\ [][NextZooroyal]_vars

\* every task of the event loop that can run is run in the end: the
\* producers' fetches return, the consumer is resumed when an item is in
\* the queue, the callback returns or raises
FairZooroyal ==
    /\ SpecZooroyal
    /\ WF_vars(ZrStartBrandScan)
    /\ \A slug \in Slugs :
          /\ WF_vars(ProducerEnter(slug))
          /\ WF_vars(ProducerStartFetch(slug))
          /\ WF_vars(ProducerFinishFetch(slug) \/ ProducerFails(slug))
    /\ WF_vars(ZrGet)
    /\ WF_vars(ZrBrandScanEnds)
    /\ WF_vars(ZrCallbackReturns \/ ZrRaise)

\* a scan of more brands than the semaphore has permits, one page per brand
InitManyBrands ==
    /\ deals = << >>
    /\ MatchIdle
    /\ PrefsIdle
    /\ AlertsIdle
    /\ ConvertIdle
    /\ FetchIdle
    /\ OverlapIdle
    /\ ScanIdle
    /\ RunIdle
    /\ ParseIdle
    /\ zr_pc = "start"
    /\ zr_scan = "brand"
    /\ zr_max_pages = 1
    /\ producer_pc = [slug \in Slugs |-> "none"]
    /\ page_num = [slug \in Slugs |-> 1]
    /\ semaphore = 0
    /\ queue = << >>
    /\ active_producers = 0
    /\ zr_seen_ids = {}
    /\ zr_chunk = << >>
    /\ zr_handed = << >>

SpecManyBrands == InitManyBrands /\ [][NextZooroyal]_vars

(***************************************************************************)
(* Claims about the Zooroyal site task                                     *)
(***************************************************************************)
\* C8: while the callback for a chunk of the adapter is running, the adapter
\* starts no page fetch and produces no further chunk.
C8_NoFetchWhileCallbackRuns ==
    [][zr_pc = "callback" =>
          /\ \A slug \in DOMAIN producer_pc :
                ~(producer_pc[slug] = "ready" /\ producer_pc'[slug] = "fetching")
          /\ Len(queue') <= Len(queue)]_vars

\* the markers and the chunks of a brand slug that are in the queue
MarkersOf(slug) ==
    {i \in 1..Len(queue) : queue[i].kind = "None" /\ queue[i].slug = slug}

ChunksOf(slug) ==
    {i \in 1..Len(queue) : queue[i].kind = "chunk" /\ queue[i].slug = slug}

\* C18: the consumer loop of scrape_brand_products ends only when every
\* producer has put its marker, and the queue is empty then: every chunk
\* that was put has been taken.
C18_LoopEndsWithAllProducersDoneAndQueueEmpty ==
    zr_scan = "reduced" =>
        /\ \A slug \in DOMAIN producer_pc : producer_pc[slug] = "done"
        /\ queue = << >>

\* the loop has ended after chunks of both brands were handed on
C18_Witness ==
    /\ zr_scan = "reduced"
    /\ \A slug \in DOMAIN producer_pc :
          \E i \in 1..Len(zr_handed) : zr_handed[i].slug = slug

\* each producer puts one marker, when it is done and behind its chunks
OneMarkerAfterChunks ==
    /\ \A slug \in DOMAIN producer_pc :
          /\ Cardinality(MarkersOf(slug)) <= 1
          /\ producer_pc[slug] # "done" => MarkersOf(slug) = {}
          /\ \A m \in MarkersOf(slug) : \A c \in ChunksOf(slug) : c < m
          /\ (producer_pc[slug] = "done" /\ MarkersOf(slug) = {}) => ChunksOf(slug) = {}
    /\ (zr_pc # "start" /\ zr_scan = "brand") =>
          Cardinality({slug \in DOMAIN producer_pc : MarkersOf(slug) # {}})
            + (Cardinality(DOMAIN producer_pc) - active_producers)
                = Cardinality({slug \in DOMAIN producer_pc : producer_pc[slug] = "done"})

\* C19: each producer puts exactly one marker, behind all its chunks, however
\* its scan ends; so when every brand scan ends and the consumer is resumed
\* again and again, the consumer loop ends (unless the callback raised and
\* _scrape_site gave the scan up).
C19_OneMarkerEachAndLoopEnds ==
    /\ []OneMarkerAfterChunks
    /\ <>(zr_scan = "reduced" \/ zr_pc = "failed")

\* the loop has ended although no producer put a chunk
C19_Witness ==
    /\ zr_scan = "reduced"
    /\ zr_handed = << >>
    /\ active_producers = 0

\* the brand scans inside "async with semaphore"
InsideSemaphore == {slug \in DOMAIN producer_pc : producer_pc[slug] \in {"ready", "fetching"}}

\* C20: at most MAX_CONCURRENT_BRANDS brand scans are inside their page
\* loop at a time, however many brands are scanned; a further brand scan
\* enters only when a permit is free, that is after another one has left.
C20_AtMostThreeBrandScansAtATime ==
    /\ Cardinality(InsideSemaphore) <= MAX_CONCURRENT_BRANDS
    /\ zr_pc # "start" => Cardinality(InsideSemaphore) = MAX_CONCURRENT_BRANDS - semaphore

\* three brand scans are inside, one has left and made room for the fourth
C20_Witness ==
    /\ Cardinality(InsideSemaphore) = MAX_CONCURRENT_BRANDS
    /\ \E slug \in DOMAIN producer_pc : producer_pc[slug] = "done"

\* the chunks that wait in the queue
WaitingChunks == {i \in 1..Len(queue) : queue[i].kind = "chunk"}

\* C21: the queue between the producers and the consumer is bounded, a put
\* blocks when the consumer is behind: the chunks waiting in the queue stay
\* below a capacity, so the queue never holds every chunk the brand scans
\* can produce (one per brand and page).
C21_QueueStaysBelowAllChunks ==
    Cardinality(WaitingChunks) < Cardinality(DOMAIN producer_pc) * zr_max_pages

\* C25: the chunks of one brand slug are handed to the consumer in page
\* order, whatever chunks of other brands come in between.
C25_ChunksOfASlugInPageOrder ==
    \A i, j \in 1..Len(zr_handed) :
        (/\ i < j
         /\ zr_handed[i].scan = "brand" /\ zr_handed[j].scan = "brand"
         /\ zr_handed[i].slug = zr_handed[j].slug)
            => zr_handed[i].page < zr_handed[j].page

\* pages 1 and 2 of a slug have been handed over while a chunk of another
\* slug waits in the queue
C25_Witness ==
    \E i, j \in 1..Len(zr_handed) :
        /\ i < j
        /\ zr_handed[i].scan = "brand" /\ zr_handed[j].scan = "brand"
        /\ zr_handed[i].slug = zr_handed[j].slug
        /\ zr_handed[i].page = 1 /\ zr_handed[j].page = 2
        /\ \E k \in 1..Len(queue) :
              queue[k].kind = "chunk" /\ queue[k].slug # zr_handed[i].slug

\* C27: when the shared browser is closed, every Zooroyal brand producer has
\* finished, also after the chunk callback raised.
C27_NoProducerLeftAtBrowserClose ==
    zr_pc = "browser_closed" => \A slug \in DOMAIN producer_pc : producer_pc[slug] = "done"


(***************************************************************************)
(* The conversion of one product tile into an offer:                       *)
(* BeautifulSoupScraper._parse_single_product (Zooplus, Bitiba),           *)
(* FressnapfScraper._parse_single_product,                                 *)
(* ZooroyalScraper._convert_to_scraped_product and                         *)
(* Zoo24Scraper._parse_single_product, as far as the prices go.            *)
(* An Optional[float] is a sequence: << >> for None, <<cents>> for a value. *)
(***************************************************************************)
NoOffer == << >>

\* Python's truth value of an Optional[float]: None and 0.0 are false
Truthy(x) == x # << >> /\ x[1] # 0

\* round(n / d, 0) for integers n and d # 0, half to even
RoundDiv(n, d) ==
    LET num == IF d < 0 THEN -n ELSE n
        den == IF d < 0 THEN -d ELSE d
        q   == num \div den
        r   == num % den
    IN IF 2 * r < den THEN q
       ELSE IF 2 * r > den THEN q + 1
       ELSE IF q % 2 = 0 THEN q ELSE q + 1

\* round(price * (1 - discount_percent / 100), 2), in cents
Discounted(price, discount_percent) == RoundDiv(price * (100 - discount_percent), 100)

\* the texts of a price element
PriceTexts == {"", "12,99 €", "0,00 €", "-3,99 €", "ab 5,99 €"}

\* BaseScraper._parse_price on the texts of the model: the euro sign and the
\* blanks are removed, the comma becomes a point, and float() reads the rest
ParsePrice(price_str) ==
    CASE price_str = ""          -> << >>
      [] price_str = "12,99 €"   -> <<1299>>
      [] price_str = "15,99 €"   -> <<1599>>
      [] price_str = "0,00 €"    -> <<0>>
      [] price_str = "-3,99 €"   -> <<-399>>
      [] price_str = "ab 5,99 €" -> << >>
      [] price_str = "20.99"     -> <<2099>>
      [] price_str = "0,00"      -> <<0>>
      [] price_str = "1.234,56"  -> << >>
      [] price_str = "12,99"     -> <<1299>>
      [] price_str = "3,99"      -> <<399>>
      [] price_str = "5,99"      -> <<599>>
      [] OTHER                   -> << >>

\* the aria-labels of a Zooroyal tile
AriaLabels == {"", "Carny 6x400g", "Carny 6x400g 20.99 EUR", "Carny 6x400g 0,00 EUR",
               "Carny 6x400g 1.234,56 EUR"}

\* ZooroyalScraper._parse_aria_label_price: the match of ([\d,.]+)\s*EUR\s*$
ParseAriaLabelPrice(aria_label) ==
    CASE aria_label = "Carny 6x400g 20.99 EUR"    -> ParsePrice("20.99")
      [] aria_label = "Carny 6x400g 0,00 EUR"     -> ParsePrice("0,00")
      [] aria_label = "Carny 6x400g 1.234,56 EUR" -> ParsePrice("1.234,56")
      [] OTHER                                    -> << >>

\* Zoo24Scraper._parse_single_product: the match of (\d+[.,]\d+)\s*€ in the
\* text of <sale-price>, "" when there is none
SalePriceMatch(sale_text) ==
    CASE sale_text = "12,99 €"   -> "12,99"
      [] sale_text = "0,00 €"    -> "0,00"
      [] sale_text = "-3,99 €"   -> "3,99"
      [] sale_text = "ab 5,99 €" -> "5,99"
      [] OTHER                   -> ""

Max(S) == CHOOSE x \in S : \A y \in S : y <= x

Least(S) == CHOOSE x \in S : \A y \in S : x <= y

\* an offer: the prices in cents, the prices per kg each None or a value
Offer(site, current_price, original_price, is_on_sale, original_ppkg, reduced_ppkg) ==
    <<[site |-> site, current_price |-> current_price,
       original_price |-> original_price, is_on_sale |-> is_on_sale,
       original_price_per_kg |-> original_ppkg, reduced_price_per_kg |-> reduced_ppkg]>>

\* BaseScraper._calculate_price_per_kg: round(price / (weight_grams / 1000), 2)
CalculatePricePerKg(price, weight_grams) ==
    IF ~Truthy(weight_grams) \/ weight_grams[1] <= 0 THEN << >>
    ELSE <<RoundDiv(price * 1000, weight_grams[1])>>

\* BaseScraper.EXCLUDE_KEYWORDS and WET_FOOD_KEYWORDS
EXCLUDE_KEYWORDS ==
    {"trockenfutter", "trocken", "dry", "kibble", "katzenstreu", "streu", "litter",
     "kratzbaum", "kratzmöbel", "spielzeug", "toy", "snacks", "leckerli", "treats",
     "sticks", "zubehör", "accessory", "napf", "bowl", "bürste", "kamm", "pflege",
     "shampoo", "halsband", "collar", "leine", "leash", "transport", "käfig", "korb"}

WET_FOOD_KEYWORDS ==
    {"nassfutter", "dose", "beutel", "pouch", "paté", "pate", "mousse", "ragout",
     "sauce", "gelee", "jelly", "brühe", "filet", "schale", "frischebeutel", "multipack"}

\* the keywords of the overrides of FressnapfScraper and ZooroyalScraper
FressnapfExcluded ==
    {"snack", "leckerli", "treat", "sticks", "dreamies", "knuspies", "soup", "suppe",
     "trockenfutter", "trocken", "kibble"}

ZooroyalExcluded == {"snack", "leckerli", "treat", "sticks", "dreamies", "knuspies"}

\* a lower-cased name is a sequence of words; the keywords that are
\* substrings of each word
KeywordsIn(word) ==
    CASE word = "trockenfutter" -> {"trockenfutter", "trocken"}
      [] word = "nassfutter" -> {"nassfutter"}
      [] word = "snacks" -> {"snacks", "snack"}
      [] OTHER -> {}

\* any(kw in name_lower for kw in keywords)
ContainsAny(name, keywords) ==
    \E i \in 1..Len(name) : KeywordsIn(name[i]) \cap keywords # {}

\* re.search(r'\d+\s*x\s*\d+\s*g\b', name_lower)
HasWeightPattern(name) == \E i \in 1..Len(name) : name[i] = "6 x 400 g"

\* _parse_weight_grams of the name: count * weight of "6 x 400 g", else None
ParseWeightGrams(name) == IF HasWeightPattern(name) THEN <<2400>> ELSE << >>

\* the names of the tiles
Names ==
    {<<"huhn">>, <<"nassfutter", "huhn">>, <<"huhn", "6 x 400 g">>,
     <<"trockenfutter", "6 x 400 g">>, <<"trockenfutter", "nassfutter">>,
     <<"snacks", "6 x 400 g">>}

\* _is_wet_food of the adapter that converts the tile
IsWetFood(c) ==
    CASE c.adapter \in {"zooplus", "bitiba"} ->
            IF ContainsAny(c.name, EXCLUDE_KEYWORDS) THEN FALSE
            ELSE \/ c.url_nassfutter
                 \/ ContainsAny(c.name, WET_FOOD_KEYWORDS)
                 \/ HasWeightPattern(c.name)
      [] c.adapter = "fressnapf" -> ~ContainsAny(c.name, FressnapfExcluded)
      [] c.adapter = "zooroyal" -> ~ContainsAny(c.name, ZooroyalExcluded)
      [] c.adapter = "zoo24" ->
            IF ContainsAny(c.name, EXCLUDE_KEYWORDS) THEN FALSE
            ELSE ContainsAny(c.name, WET_FOOD_KEYWORDS) \/ HasWeightPattern(c.name)

\* the fields every adapter reads from a tile; the ones an adapter does not
\* read are blank
Tile(adapter, listed, name, url, price_text, strike_text, discount, prices, mixpaket, pkg) ==
    [adapter |-> adapter, listed |-> listed, name |-> name, url_nassfutter |-> url,
     price_text |-> price_text,
     strike_text |-> strike_text, discount_percent |-> discount,
     actual_prices |-> prices, mixpaket_price |-> mixpaket,
     per_kg |-> pkg, weight_grams |-> ParseWeightGrams(name)]

\* the price per kg a tile shows (the parsed match of "X,XX € / kg"), if any
PerKgPrices == {<< >>, <<499>>, <<541>>}


\* the product prices found in the text of a Zooplus or Bitiba card
ActualPrices == {<< >>, <<599>>, <<1000>>, <<599, 1000>>, <<1000, 599>>}

\* the percentage of a discount badge, if there is one
DiscountPercents == {<< >>, <<0>>, <<20>>, <<100>>, <<120>>}

BeautifulSoupTiles ==
    {Tile(a, l, n, u, "", "", d, ps, m, pkg) :
        a \in {"zooplus", "bitiba"}, l \in BOOLEAN, n \in Names, u \in BOOLEAN,
        d \in DiscountPercents, ps \in ActualPrices, m \in {<< >>, <<0>>, <<1800>>},
        pkg \in PerKgPrices}

FressnapfTiles ==
    {Tile("fressnapf", l, n, TRUE, pt, st, d, << >>, << >>, pkg) :
        l \in BOOLEAN, n \in Names, pt \in PriceTexts,
        st \in {"", "15,99 €"}, d \in {<< >>, <<20>>},
        pkg \in PerKgPrices}

ZooroyalTiles ==
    {Tile("zooroyal", l, n, TRUE, al, "", d, << >>, << >>, << >>) :
        l \in BOOLEAN, n \in Names, al \in AriaLabels, d \in DiscountPercents}

Zoo24Tiles ==
    {Tile("zoo24", l, n, FALSE, pt, st, << >>, << >>, << >>, pkg) :
        l \in BOOLEAN, n \in Names, pt \in PriceTexts, st \in {"", "15,99 €"},
        pkg \in PerKgPrices}


\* BeautifulSoupScraper._parse_single_product, lines 552-600: original and
\* current price from the prices of the card, the discount, the emission
BeautifulSoupOffer(c) ==
    LET original_price ==
            IF Truthy(c.mixpaket_price) THEN c.mixpaket_price
            ELSE IF c.actual_prices # << >>
                 THEN IF Len(c.actual_prices) > 1
                      THEN <<Max(SeqRange(c.actual_prices))>>
                      ELSE <<c.actual_prices[1]>>
                 ELSE << >>
        listed_price ==
            IF Truthy(c.mixpaket_price) THEN << >>
            ELSE IF c.actual_prices # << >>
                 THEN IF Len(c.actual_prices) > 1
                      THEN <<Least(SeqRange(c.actual_prices))>>
                      ELSE <<c.actual_prices[1]>>
                 ELSE << >>
        discounted == Truthy(c.discount_percent) /\ Truthy(original_price)
        current_price ==
            IF discounted
            THEN <<Discounted(original_price[1], c.discount_percent[1])>>
            ELSE listed_price
        \* lines 503-520: the first price per kg that is no subscription price,
        \* and its reduction when the card has a discount badge
        original_price_per_kg == IF Truthy(c.per_kg) THEN c.per_kg ELSE << >>
        reduced_price_per_kg ==
            IF c.discount_percent # << >> /\ Truthy(original_price_per_kg)
            THEN <<Discounted(original_price_per_kg[1], c.discount_percent[1])>>
            ELSE << >>
    IN IF ~c.listed THEN NoOffer
       ELSE IF ~Truthy(current_price) THEN NoOffer
       ELSE IF ~IsWetFood(c) THEN NoOffer
       ELSE Offer(c.adapter, current_price[1], original_price[1], discounted,
                  original_price_per_kg, reduced_price_per_kg)

\* FressnapfScraper._parse_single_product, lines 966-1013
FressnapfOffer(c) ==
    LET current_price == ParsePrice(c.price_text)
        strike_price == ParsePrice(c.strike_text)
        struck == /\ Truthy(current_price)
                  /\ Truthy(strike_price)
                  /\ strike_price[1] > current_price[1]
        is_on_sale == struck \/ c.discount_percent # << >>
    IN IF ~c.listed THEN NoOffer
       ELSE IF ~Truthy(current_price) THEN NoOffer
       ELSE IF ~IsWetFood(c) THEN NoOffer
       ELSE Offer(c.adapter, current_price[1],
                  IF struck THEN strike_price[1] ELSE current_price[1],
                  is_on_sale,
                  \* lines 979-985: the price per kg the teaser shows
                  c.per_kg,
                  \* lines 1020-1023: computed from the current price
                  IF is_on_sale /\ Truthy(c.weight_grams)
                  THEN CalculatePricePerKg(current_price[1], c.weight_grams)
                  ELSE << >>)

\* ZooroyalScraper._convert_to_scraped_product, lines 1488-1508: the division
\* of line 1506 raises ZeroDivisionError for a discount of 100 percent
ZooroyalDivides(c) ==
    /\ c.listed
    /\ Truthy(ParseAriaLabelPrice(c.price_text))
    /\ Truthy(c.discount_percent)

ZooroyalOffer(c) ==
    LET current_price == ParseAriaLabelPrice(c.price_text)
        is_on_sale == Truthy(c.discount_percent)
        original_price ==
            IF is_on_sale
            THEN RoundDiv(current_price[1] * 100, 100 - c.discount_percent[1])
            ELSE current_price[1]
    IN IF ~c.listed THEN NoOffer
       ELSE IF ~Truthy(current_price) THEN NoOffer
       ELSE IF ~IsWetFood(c) THEN NoOffer
       ELSE Offer(c.adapter, current_price[1], original_price, is_on_sale,
                  \* lines 1521-1523
                  CalculatePricePerKg(original_price, c.weight_grams),
                  IF is_on_sale
                  THEN CalculatePricePerKg(current_price[1], c.weight_grams)
                  ELSE << >>)

\* Zoo24Scraper._parse_single_product, lines 1878-1905
Zoo24Offer(c) ==
    LET current_price == ParsePrice(SalePriceMatch(c.price_text))
        compare_price == ParsePrice(c.strike_text)
        reduced == /\ Truthy(current_price)
                   /\ Truthy(compare_price)
                   /\ compare_price[1] > current_price[1]
        original_price == IF reduced THEN compare_price[1] ELSE current_price[1]
        \* lines 1917-1927: the unit price, and on sale the original price per
        \* kg calculated back from the ratio of the prices
        unit_price_per_kg == c.per_kg
        from_unit ==
            IF reduced /\ Truthy(unit_price_per_kg)
            THEN <<RoundDiv(unit_price_per_kg[1] * original_price, current_price[1])>>
            ELSE unit_price_per_kg
        \* lines 1936-1942: without a unit price, from the weight
        from_weight == ~Truthy(from_unit) /\ Truthy(c.weight_grams)
        original_price_per_kg ==
            IF from_weight
            THEN CalculatePricePerKg(original_price, c.weight_grams)
            ELSE from_unit
        reduced_price_per_kg ==
            IF from_weight
            THEN IF reduced THEN CalculatePricePerKg(current_price[1], c.weight_grams)
                 ELSE << >>
            ELSE IF reduced /\ Truthy(unit_price_per_kg) THEN unit_price_per_kg
                 ELSE << >>
    IN IF ~c.listed THEN NoOffer
       ELSE IF ~IsWetFood(c) THEN NoOffer
       ELSE IF SalePriceMatch(c.price_text) = "" THEN NoOffer
       ELSE IF ~Truthy(current_price) THEN NoOffer
       ELSE Offer(c.adapter, current_price[1], original_price, reduced,
                  original_price_per_kg, reduced_price_per_kg)

InitParse ==
    /\ deals = << >>
    /\ MatchIdle
    /\ PrefsIdle
    /\ AlertsIdle
    /\ ConvertIdle
    /\ FetchIdle
    /\ OverlapIdle
    /\ ScanIdle
    /\ RunIdle
    /\ ZrIdle
    /\ tile \in BeautifulSoupTiles \cup FressnapfTiles \cup ZooroyalTiles \cup Zoo24Tiles
    /\ parse_pc = "input"
    /\ emitted = NoOffer

ParseSingleProduct ==
    /\ parse_pc = "input"
    /\ tile.adapter \in {"zooplus", "bitiba"}
    /\ parse_pc' = "parsed"
    /\ emitted' = BeautifulSoupOffer(tile)
    /\ UNCHANGED <<tile, notParseVars>>

FressnapfParseSingleProduct ==
    /\ parse_pc = "input"
    /\ tile.adapter = "fressnapf"
    /\ parse_pc' = "parsed"
    /\ emitted' = FressnapfOffer(tile)
    /\ UNCHANGED <<tile, notParseVars>>

ConvertToScrapedProduct ==
    /\ parse_pc = "input"
    /\ tile.adapter = "zooroyal"
    /\ IF ZooroyalDivides(tile) /\ tile.discount_percent[1] = 100
       THEN parse_pc' = "raised" /\ emitted' = NoOffer
       ELSE parse_pc' = "parsed" /\ emitted' = ZooroyalOffer(tile)
    /\ UNCHANGED <<tile, notParseVars>>

Zoo24ParseSingleProduct ==
    /\ parse_pc = "input"
    /\ tile.adapter = "zoo24"
    /\ parse_pc' = "parsed"
    /\ emitted' = Zoo24Offer(tile)
    /\ UNCHANGED <<tile, notParseVars>>

NextParse ==
    \/ ParseSingleProduct
    \/ FressnapfParseSingleProduct
    \/ ConvertToScrapedProduct
    \/ Zoo24ParseSingleProduct

SpecParse == InitParse /\ [][NextParse]_vars

(***************************************************************************)
(* Claims about the conversion of a tile                                   *)
(***************************************************************************)
\* C10: every offer an adapter emits has a current price that is present and
\* greater than zero.
C10_EmittedPriceIsPositive ==
    emitted # NoOffer => emitted[1].current_price > 0


\* C11: on every emitted offer that has both prices per kg, the reduced one
\* is not greater than the original one.
C11_ReducedPerKgNotAboveOriginal ==
    (/\ emitted # NoOffer
     /\ emitted[1].reduced_price_per_kg # << >>
     /\ emitted[1].original_price_per_kg # << >>)
        => emitted[1].reduced_price_per_kg[1] <= emitted[1].original_price_per_kg[1]

\* C17: no adapter emits an offer for an item whose name contains an
\* exclusion keyword, whatever wet-food keywords, weight patterns or category
\* paths come with it.
C17_ExcludedNameNotEmitted ==
    emitted # NoOffer => ~ContainsAny(tile.name, EXCLUDE_KEYWORDS)

(***************************************************************************)
(* One brand scan of one adapter: the page loop of scrape_brand_products   *)
(* (for Zooroyal the page loop of one brand slug, _scrape_single_brand)    *)
(* with its price filter.  One action is one iteration of the loop, from   *)
(* the fetch of the page to the yield of its chunk.                        *)
(***************************************************************************)
Adapters == {"zooplus", "bitiba", "fressnapf", "zooroyal", "zoo24"}

\* BaseScraper.DEFAULT_MAX_PRICE_PER_KG and its override, in cents
DEFAULT_MAX_PRICE_PER_KG == 1000

FressnapfDefaultMaxPricePerKg == 1500

MAX_SEARCH_PAGES == 35

\* Zoo24: the scan stops at the tenth consecutive offer above the threshold
ExceededLimit == 10

\* Zoo24: a page without a valid offer ends the scan after this page
InitialPages == 3

\* scrape_price = max(max_price_per_kg or 0, self.DEFAULT_MAX_PRICE_PER_KG)
ScrapePrice(adapter, max_price_per_kg) ==
    Max({IF Truthy(max_price_per_kg) THEN max_price_per_kg[1] ELSE 0,
         IF adapter = "fressnapf" THEN FressnapfDefaultMaxPricePerKg
         ELSE DEFAULT_MAX_PRICE_PER_KG})

\* fetch_max = int(scrape_price / 0.7) + 1, the upper end (in cents) of the
\* price_per_kg filter of the bulk URL
FetchMax(scrape_price) == ((scrape_price \div 70) + 1) * 100

\* price_per_kg = p.reduced_price_per_kg or p.original_price_per_kg
PricePerKgOf(p) ==
    IF Truthy(p.reduced_price_per_kg) THEN p.reduced_price_per_kg
    ELSE p.original_price_per_kg

\* price_per_kg and price_per_kg > scrape_price * 1.3
AboveHeadroom(p, scrape_price) ==
    Truthy(PricePerKgOf(p)) /\ PricePerKgOf(p)[1] * 10 > scrape_price * 13

\* pages_limit: max_pages, for Zoo24 "max_pages or self.MAX_SEARCH_PAGES"
PagesLimit(adapter, max_pages) ==
    IF adapter = "zoo24" /\ ~Truthy(max_pages) THEN MAX_SEARCH_PAGES ELSE max_pages[1]

OnePageMoreMutant(pn, limit) == pn > limit

\* "for page_num in range(1, pages_limit + 1)" has no further value
LastPage(pn, limit) == pn >= limit

\* the offers a page can hold: the page's own product at one of three prices
\* per kg, for Zoo24 with a brand outside the brand set, and the product of
\* page 1 once more
ScannedProduct(id, brand_ok, reduced_ppkg, original_ppkg) ==
    [id |-> id, brand_ok |-> brand_ok,
     reduced_price_per_kg |-> reduced_ppkg, original_price_per_kg |-> original_ppkg]

PageProducts(adapter, pn) ==
    {ScannedProduct(pn, TRUE, << >>, <<900>>),
     ScannedProduct(pn, TRUE, <<1400>>, <<1800>>),
     ScannedProduct(pn, TRUE, << >>, <<2700>>),
     ScannedProduct(1, TRUE, << >>, <<900>>)}
    \cup (IF adapter = "zoo24" THEN {ScannedProduct(pn, FALSE, << >>, <<900>>)} ELSE {})

\* what the site lists for the URL: the bulk URL of Zooplus and Bitiba
\* carries the filter price_per_kg=0;fetch_max, the other URLs carry no price
Listed(adapter, pn, scrape_price) ==
    IF adapter \in {"zooplus", "bitiba"}
    THEN {p \in PageProducts(adapter, pn) :
            Truthy(PricePerKgOf(p)) /\ PricePerKgOf(p)[1] <= FetchMax(scrape_price)}
    ELSE PageProducts(adapter, pn)

\* Zoo24: pages long enough for the run of offers above the threshold to
\* reach ExceededLimit, within one page or over two
Zoo24LongPages(pn) ==
    LET dear == ScannedProduct(pn, TRUE, << >>, <<2700>>)
        cheap == ScannedProduct(pn, TRUE, << >>, <<900>>)
        foreign == ScannedProduct(pn, FALSE, << >>, <<2700>>)
        half == ExceededLimit \div 2
        Dear(n) == [i \in 1..n |-> dear]
    IN {<<cheap>> \o Dear(ExceededLimit),
        <<cheap>> \o Dear(ExceededLimit - half),
        Dear(half) \o <<foreign>> \o Dear(ExceededLimit - half),
        Dear(ExceededLimit - 1) \o <<cheap>> \o Dear(half)}

\* the outcomes of fetching and parsing one page: no html, or the parsed list
PageOutcomes(adapter, pn, scrape_price) ==
    LET L == Listed(adapter, pn, scrape_price)
        dear == ScannedProduct(pn, TRUE, << >>, <<2700>>)
    IN {[html |-> FALSE, products |-> << >>]}
       \cup {[html |-> TRUE, products |-> ps] : ps \in SeqsUpTo(L, 2)}
       \cup (IF adapter = "zoo24"
             THEN {[html |-> TRUE, products |-> [i \in 1..ExceededLimit |-> dear]]}
             ELSE {})

\* Fressnapf: the loop over the products of a page
RECURSIVE FressnapfChunk(_, _, _)
FressnapfChunk(ps, seen, scrape_price) ==
    IF ps = << >> THEN << >>
    ELSE IF AboveHeadroom(Head(ps), scrape_price)
         THEN FressnapfChunk(Tail(ps), seen, scrape_price)
         ELSE IF IsNew(Head(ps), seen)
              THEN <<Head(ps)>> \o FressnapfChunk(Tail(ps), seen \cup {Head(ps).id}, scrape_price)
              ELSE FressnapfChunk(Tail(ps), seen, scrape_price)

\* Zooroyal: the loop over the products of a page (no seen_ids in this loop)
ZooroyalChunk(ps, scrape_price) ==
    SelectSeq(ps, LAMBDA p : ~AboveHeadroom(p, scrape_price))

Zoo24StepNoResetMutant(p, acc, scrape_price) ==
    IF ~p.brand_ok THEN acc
    ELSE IF AboveHeadroom(p, scrape_price)
         THEN [acc EXCEPT !.exceeded = @ + 1,
                          !.returned = (acc.exceeded + 1 >= ExceededLimit)]
         ELSE IF p.id \notin acc.seen
              THEN [acc EXCEPT !.seen = @ \cup {p.id},
                               !.chunk = Append(@, p), !.valid = TRUE]
              ELSE acc

\* Zoo24: the body of the loop over the products of a page, for one product;
\* returned is the early return
Zoo24Step(p, acc, scrape_price) ==
    IF ~p.brand_ok THEN acc
    ELSE IF AboveHeadroom(p, scrape_price)
         THEN [acc EXCEPT !.exceeded = @ + 1,
                          !.returned = (acc.exceeded + 1 >= ExceededLimit)]
         ELSE IF p.id \notin acc.seen
              THEN [acc EXCEPT !.exceeded = 0, !.seen = @ \cup {p.id},
                               !.chunk = Append(@, p), !.valid = TRUE]
              ELSE [acc EXCEPT !.exceeded = 0]

\* Zoo24: the loop over the products of a page
RECURSIVE Zoo24Loop(_, _, _)
Zoo24Loop(ps, acc, scrape_price) ==
    IF ps = << >> \/ acc.returned THEN acc
    ELSE Zoo24Loop(Tail(ps), Zoo24Step(Head(ps), acc, scrape_price), scrape_price)

ScanInputs ==
    {[adapter |-> a, max_price_per_kg |-> mp, max_pages |-> pages] :
        a \in Adapters, mp \in {<< >>, <<2000>>},
        pages \in {<<n>> : n \in 1..MaxPages} \cup {<< >>}}

InitScan ==
    /\ deals = << >>
    /\ MatchIdle
    /\ PrefsIdle
    /\ AlertsIdle
    /\ ConvertIdle
    /\ FetchIdle
    /\ OverlapIdle
    /\ RunIdle
    /\ ZrIdle
    /\ ParseIdle
    /\ \E i \in ScanInputs :
        /\ (i.max_pages = << >> => i.adapter = "zoo24" /\ i.max_price_per_kg = << >>)
        /\ bs_adapter = i.adapter
        /\ bs_max_price_per_kg = i.max_price_per_kg
        /\ bs_max_pages = i.max_pages
    /\ bs_pc = "loop"
    /\ bs_page_num = 0
    /\ bs_seen_ids = {}
    /\ exceeded_price_count = 0
    /\ bs_chunk = << >>
    /\ bs_products = << >>

\* the iteration ends the scan (break, return or the range is exhausted) or not
AfterPage(pn, stop) ==
    /\ bs_page_num' = pn
    /\ bs_pc' = IF stop \/ LastPage(pn, PagesLimit(bs_adapter, bs_max_pages))
                THEN "done" ELSE "loop"
    /\ UNCHANGED <<bs_adapter, bs_max_price_per_kg, bs_max_pages>>
    /\ UNCHANGED notScanVars

\* BeautifulSoupScraper.scrape_brand_products, one page
BulkScrapePage ==
    /\ bs_pc = "loop"
    /\ bs_adapter \in {"zooplus", "bitiba"}
    /\ LET pn == bs_page_num + 1
           scrape_price == ScrapePrice(bs_adapter, bs_max_price_per_kg)
       IN \E r \in PageOutcomes(bs_adapter, pn, scrape_price) :
            LET new == NewProducts(r.products, bs_seen_ids)
            IN /\ bs_chunk' = new
               /\ bs_products' = r.products
               /\ bs_seen_ids' = bs_seen_ids \cup IdsOf(new)
               /\ UNCHANGED exceeded_price_count
               /\ AfterPage(pn, ~r.html \/ r.products = << >> \/ Len(new) = 0)

\* FressnapfScraper.scrape_brand_products, one page
FressnapfScrapePage ==
    /\ bs_pc = "loop"
    /\ bs_adapter = "fressnapf"
    /\ LET pn == bs_page_num + 1
           scrape_price == ScrapePrice(bs_adapter, bs_max_price_per_kg)
       IN \E r \in PageOutcomes(bs_adapter, pn, scrape_price) :
            LET new == FressnapfChunk(r.products, bs_seen_ids, scrape_price)
            IN /\ bs_chunk' = new
               /\ bs_products' = r.products
               /\ bs_seen_ids' = bs_seen_ids \cup IdsOf(new)
               /\ UNCHANGED exceeded_price_count
               /\ AfterPage(pn, ~r.html \/ r.products = << >>
                                  \/ (Len(new) = 0 /\ pn > 1))

\* ZooroyalScraper._scrape_single_brand, one page
ZooroyalScrapePage ==
    /\ bs_pc = "loop"
    /\ bs_adapter = "zooroyal"
    /\ LET pn == bs_page_num + 1
           scrape_price == ScrapePrice(bs_adapter, bs_max_price_per_kg)
       IN \E r \in PageOutcomes(bs_adapter, pn, scrape_price) :
            LET new == ZooroyalChunk(r.products, scrape_price)
            IN /\ bs_chunk' = new
               /\ bs_products' = r.products
               /\ UNCHANGED <<bs_seen_ids, exceeded_price_count>>
               /\ AfterPage(pn, r.products = << >> \/ (Len(new) = 0 /\ pn > 1))

\* Zoo24Scraper.scrape_brand_products, one page
Zoo24ScrapePage ==
    /\ bs_pc = "loop"
    /\ bs_adapter = "zoo24"
    /\ LET pn == bs_page_num + 1
           scrape_price == ScrapePrice(bs_adapter, bs_max_price_per_kg)
       IN \E r \in PageOutcomes(bs_adapter, pn, scrape_price)
                    \cup (IF Truthy(bs_max_pages)
                          THEN {[html |-> TRUE, products |-> ps] : ps \in Zoo24LongPages(pn)}
                          ELSE {}) :
            LET acc == Zoo24Loop(r.products,
                                 [chunk |-> << >>, seen |-> bs_seen_ids,
                                  exceeded |-> exceeded_price_count,
                                  valid |-> FALSE, returned |-> FALSE],
                                 scrape_price)
            IN /\ bs_chunk' = acc.chunk
               /\ bs_products' = r.products
               /\ bs_seen_ids' = acc.seen
               /\ exceeded_price_count' = acc.exceeded
               /\ AfterPage(pn, ~r.html \/ r.products = << >> \/ acc.returned
                                  \/ (~acc.valid /\ pn > InitialPages))

NextScan ==
    \/ BulkScrapePage
    \/ FressnapfScrapePage
    \/ ZooroyalScrapePage
    \/ Zoo24ScrapePage

SpecScan == InitScan /\ [][NextScan]_vars

\* the price per kg of an offer: the reduced one if set, otherwise the original one
StatedPricePerKg(p) ==
    IF p.reduced_price_per_kg # << >> THEN p.reduced_price_per_kg
    ELSE p.original_price_per_kg

\* C12: no offer of a chunk that a brand scan yields has a price per kg above
\* 1.3 times the scan's price ceiling, whichever adapter runs the scan.
C12_YieldedWithinHeadroom ==
    \A i \in 1..Len(bs_chunk) :
        StatedPricePerKg(bs_chunk[i]) # << >> =>
            StatedPricePerKg(bs_chunk[i])[1] * 10
                <= ScrapePrice(bs_adapter, bs_max_price_per_kg) * 13

\* the bound of the page loop: the argument max_pages, and for Zoo24 called
\* without it the adapter's MAX_SEARCH_PAGES
GivenMaxPages == IF bs_max_pages # << >> THEN bs_max_pages[1] ELSE MAX_SEARCH_PAGES

\* C13: a brand scan fetches at most maxPages pages, even when every page
\* holds new offers: once page maxPages is fetched the scan has ended, so
\* page maxPages + 1 is never fetched.
C13_AtMostMaxPagesFetched ==
    /\ bs_page_num <= GivenMaxPages
    /\ (bs_pc = "loop" => bs_page_num < GivenMaxPages)

\* a scan that ended at its last allowed page although that page had new offers
C13_Witness ==
    /\ bs_pc = "done"
    /\ bs_max_pages # << >>
    /\ bs_page_num = bs_max_pages[1]
    /\ bs_page_num > 1
    /\ bs_chunk # << >>

\* the brand-matching offers of a page, in the page's order
Qualifying(ps) == SelectSeq(ps, LAMBDA p : p.brand_ok)

\* the length of the run of offers above the threshold that ends with q[i],
\* the run of the earlier pages (carried) included when it reaches back to
\* the start of the page
RunEndingAt(q, i, carried, scrape_price) ==
    LET starts == {j \in 1..i : \A k \in j..i : AboveHeadroom(q[k], scrape_price)}
    IN IF starts = {} THEN 0
       ELSE IF 1 \in starts THEN carried + i
       ELSE Cardinality(starts)

\* the offers of q[1..n] that belong in the chunk: not above the threshold
\* and not seen before
CollectedUpTo(q, n, seen, scrape_price) ==
    LET keep == {i \in 1..n :
                    /\ ~AboveHeadroom(q[i], scrape_price)
                    /\ q[i].id \notin seen
                    /\ \A j \in 1..(i - 1) :
                          AboveHeadroom(q[j], scrape_price) \/ q[j].id # q[i].id}
    IN [k \in 1..Cardinality(keep) |->
          q[CHOOSE i \in keep : Cardinality({j \in keep : j <= i}) = k]]

\* one page of the Zoo24 scan, told from the offers of the page
Zoo24PageAsStated ==
    LET scrape_price == ScrapePrice(bs_adapter, bs_max_price_per_kg)
        q == Qualifying(bs_products')
        stops == {i \in 1..Len(q) :
                    RunEndingAt(q, i, exceeded_price_count, scrape_price) >= ExceededLimit}
    IN IF stops # {}
       THEN LET first == CHOOSE i \in stops : \A j \in stops : i <= j
            IN /\ bs_pc' = "done"
               /\ bs_chunk' = CollectedUpTo(q, first - 1, bs_seen_ids, scrape_price)
       ELSE /\ exceeded_price_count' =
                  IF q = << >> THEN exceeded_price_count
                  ELSE RunEndingAt(q, Len(q), exceeded_price_count, scrape_price)
            /\ bs_chunk' = CollectedUpTo(q, Len(q), bs_seen_ids, scrape_price)
            /\ bs_pc' = "done" =>
                  \/ LastPage(bs_page_num', PagesLimit(bs_adapter, bs_max_pages))
                  \/ bs_products' = << >>
                  \/ bs_chunk' = << >> /\ bs_page_num' > InitialPages

\* C24: the Zoo24 scan stops at the tenth consecutive brand-matching offer
\* whose price per kg is above 1.3 times the ceiling and not before; the
\* count carries over from page to page, a brand-matching offer that is not
\* above resets it, and the offers collected on the page before the stop are
\* still yielded.
C24_StopsAtTenthConsecutiveDearOffer ==
    [][(bs_adapter = "zoo24" /\ bs_page_num' = bs_page_num + 1) => Zoo24PageAsStated]_vars

\* a scan of two pages has stopped on page 1 at the tenth dear offer and has
\* yielded the offer collected before them
C24_Witness ==
    /\ bs_adapter = "zoo24"
    /\ bs_max_pages = <<2>>
    /\ bs_page_num = 1
    /\ bs_pc = "done"
    /\ exceeded_price_count = ExceededLimit
    /\ bs_chunk # << >>

(***************************************************************************)
(* Overlapping runs: the scheduler's run_check and the run_check of the    *)
(* /scrape command run in one event loop, nothing keeps one from starting  *)
(* while the other is in progress.  Each saves one chunk of the same site  *)
(* in a thread of its own (asyncio.to_thread) with a session of its own.   *)
(* The database is the configured SQLite file: one writer at a time, and   *)
(* products.external_id is UNIQUE.                                         *)
(***************************************************************************)
Runs == {"scheduled", "scrape"}

SavedIds == {"zooplus:1", "zooplus:2"}

ScrapedOffer(external_id) == [external_id |-> external_id, site |-> "zooplus"]

\* the chunks: one or two offers, no id twice (seen_ids of the scan)
Chunks ==
    {s \in SeqsUpTo({ScrapedOffer(e) : e \in SavedIds}, Cardinality(SavedIds)) :
        s # << >> /\ \A i, j \in 1..Len(s) : i # j => s[i] # s[j]}

NoPending == [products |-> << >>, prices |-> << >>]

\* stats and products_to_alert at the start of _save_products_batch_sync
NoBatchStats == [new_products |-> 0, price_updates |-> 0, products_to_alert |-> << >>]

\* session.rollback(): everything the session has flushed and not committed
Rollback(p, r) == [p EXCEPT ![r] = NoPending]

\* filter(Product.external_id == ..., Product.site == ...).first() is not None
QueryFinds(rows, scraped) ==
    \E i \in 1..Len(rows) :
        rows[i].external_id = scraped.external_id /\ rows[i].site = scraped.site

\* the UNIQUE index of products.external_id rejects the INSERT
UniqueViolation(rows, scraped) ==
    \E i \in 1..Len(rows) : rows[i].external_id = scraped.external_id

InitOverlap ==
    /\ deals = << >>
    /\ MatchIdle
    /\ PrefsIdle
    /\ AlertsIdle
    /\ ConvertIdle
    /\ FetchIdle
    /\ ScanIdle
    /\ RunIdle
    /\ ZrIdle
    /\ ParseIdle
    /\ run_pc = [r \in Runs |-> "idle"]
    /\ batch \in [Runs -> Chunks]
    /\ idx = [r \in Runs |-> 1]
    /\ row_found = [r \in Runs |-> FALSE]
    /\ pending = [r \in Runs |-> NoPending]
    /\ writer = ""
    /\ product_rows = << >>
    /\ price_rows = << >>
    /\ save_errors = << >>
    /\ batch_stats = [r \in Runs |-> NoBatchStats]

overlapRest == <<main_pc, siteVars, dbVars, statVars, matchVars, zrVars, parseVars, scanVars,
                 fetchVars, convertVars, alertsVars, prefsVars>>

\* run_check sets the flag; its scan hands the chunk to handle_chunk
RunCheckStarts(r) ==
    /\ run_pc[r] = "idle"
    /\ is_running' = TRUE
    /\ run_pc' = [run_pc EXCEPT ![r] = "query"]
    /\ UNCHANGED <<batch, idx, row_found, pending, writer, product_rows, price_rows,
                   save_errors, batch_stats, overlapRest>>

\* save_product: the query for the row of (external_id, site); the session
\* sees the committed rows and its own
SaveProductQuery(r) ==
    /\ run_pc[r] = "query"
    /\ row_found' = [row_found EXCEPT ![r] =
            QueryFinds(product_rows \o pending[r].products, batch[r][idx[r]])]
    /\ run_pc' = [run_pc EXCEPT ![r] = "flush"]
    /\ UNCHANGED <<is_running, batch, idx, pending, writer, product_rows, price_rows,
                   save_errors, batch_stats, overlapRest>>

\* the loop goes on with the next offer, or the batch commits
NextOffer(r) ==
    /\ idx' = [idx EXCEPT ![r] = @ + 1]
    /\ run_pc' = [run_pc EXCEPT ![r] =
            IF idx[r] < Len(batch[r]) THEN "query" ELSE "commit"]

\* save_product after the query: the row is updated, or a row is added and
\* flushed; the flush waits for the write lock, and an IntegrityError ends in
\* the batch's "except Exception" with session.rollback()
SaveProductFlush(r) ==
    /\ run_pc[r] = "flush"
    /\ IF row_found[r]
       THEN /\ run_pc' = [run_pc EXCEPT ![r] = "price"]
            /\ UNCHANGED <<idx, pending, writer, save_errors, batch_stats>>
       ELSE /\ writer \in {"", r}
            /\ IF UniqueViolation(product_rows \o pending[r].products, batch[r][idx[r]])
               THEN /\ save_errors' = Append(save_errors,
                            [run |-> r, external_id |-> batch[r][idx[r]].external_id,
                             error |-> "IntegrityError"])
                    /\ pending' = Rollback(pending, r)
                    /\ writer' = ""
                    /\ NextOffer(r)
                    /\ UNCHANGED batch_stats
               ELSE /\ pending' = [pending EXCEPT ![r].products =
                            Append(@, batch[r][idx[r]])]
                    /\ writer' = r
                    /\ run_pc' = [run_pc EXCEPT ![r] = "price"]
                    /\ batch_stats' = [batch_stats EXCEPT ![r].new_products = @ + 1]
                    /\ UNCHANGED <<idx, save_errors>>
    /\ UNCHANGED <<is_running, batch, row_found, product_rows, price_rows, overlapRest>>

\* save_price adds a PriceHistory row and flushes, and the rest of the loop
\* body counts the price and notes the offer (one with a price per kg) for
\* the alerts; or the flush raises (an OperationalError of the database, for
\* instance) and the batch's "except Exception" rolls the session back
SavePrice(r) ==
    /\ run_pc[r] = "price"
    /\ writer \in {"", r}
    /\ \E flushed \in BOOLEAN :
          IF flushed
          THEN /\ pending' = [pending EXCEPT ![r].prices =
                      Append(@, [external_id |-> batch[r][idx[r]].external_id, run |-> r])]
               /\ writer' = r
               /\ batch_stats' = [batch_stats EXCEPT
                      ![r].price_updates = @ + 1,
                      ![r].products_to_alert = Append(@, batch[r][idx[r]].external_id)]
               /\ UNCHANGED save_errors
          ELSE /\ save_errors' = Append(save_errors,
                      [run |-> r, external_id |-> batch[r][idx[r]].external_id,
                       error |-> "OperationalError"])
               /\ pending' = Rollback(pending, r)
               /\ writer' = ""
               /\ UNCHANGED batch_stats
    /\ NextOffer(r)
    /\ UNCHANGED <<is_running, batch, row_found, product_rows, price_rows, overlapRest>>

\* session.commit() at the end of the batch
CommitBatch(r) ==
    /\ run_pc[r] = "commit"
    /\ writer \in {"", r}
    /\ product_rows' = product_rows \o pending[r].products
    /\ price_rows' = price_rows \o pending[r].prices
    /\ pending' = [pending EXCEPT ![r] = NoPending]
    /\ writer' = ""
    /\ run_pc' = [run_pc EXCEPT ![r] = "ending"]
    /\ UNCHANGED <<is_running, batch, idx, row_found, save_errors, batch_stats, overlapRest>>

\* run_check returns or raises: "finally: _is_running = False"
RunCheckEnds(r) ==
    /\ run_pc[r] = "ending"
    /\ \E exception \in BOOLEAN : run_pc' = [run_pc EXCEPT ![r] = "returned"]
    /\ is_running' = FALSE
    /\ UNCHANGED <<batch, idx, row_found, pending, writer, product_rows, price_rows,
                   save_errors, batch_stats, overlapRest>>

NextOverlap ==
    \E r \in Runs :
        \/ RunCheckStarts(r)
        \/ SaveProductQuery(r)
        \/ SaveProductFlush(r)
        \/ SavePrice(r)
        \/ CommitBatch(r)
        \/ RunCheckEnds(r)

SpecOverlap == InitOverlap /\ [][NextOverlap]_vars

\* the price rows that a call's batch has committed
PriceRowsOf(r) == SelectSeq(price_rows, LAMBDA row : row.run = r)

\* C14: saving is an idempotent upsert keyed by (external_id, site), also for
\* the batches of overlapping runs: there is at most one Product row per key,
\* no save of an offer fails on a row that exists (the row is updated), and
\* every offer of a committed batch has added exactly one price row.
C14_IdempotentUpsert ==
    /\ \A i, j \in 1..Len(product_rows) :
            (/\ product_rows[i].external_id = product_rows[j].external_id
             /\ product_rows[i].site = product_rows[j].site) => i = j
    /\ \A i \in 1..Len(save_errors) : save_errors[i].error # "IntegrityError"
    /\ \A r \in Runs :
            (/\ run_pc[r] \in {"ending", "returned"}
             /\ \A i \in 1..Len(save_errors) : save_errors[i].error # "OperationalError")
                => Len(PriceRowsOf(r)) = Len(batch[r])

\* C15: the flag is_check_running() reports is true whenever a run_check call
\* is in progress, also when two calls overlap.
C15_FlagTrueWhileAnyRunActive ==
    (\E r \in Runs : run_pc[r] \notin {"idle", "returned"}) => is_running

\* C28: when a batch has returned, every offer it has counted in
\* price_updates and every offer in its alert list has its PriceHistory row
\* committed, whatever failed in between.
C28_CountedOffersAreCommitted ==
    \A r \in Runs :
        run_pc[r] \in {"ending", "returned"} =>
            /\ batch_stats[r].price_updates = Len(PriceRowsOf(r))
            /\ \A i \in 1..Len(batch_stats[r].products_to_alert) :
                  \E k \in 1..Len(price_rows) :
                      /\ price_rows[k].run = r
                      /\ price_rows[k].external_id = batch_stats[r].products_to_alert[i]

\* the componentwise sum of the stats of the chunks of a sequence
RECURSIVE SumStats(_)
SumStats(s) == IF s = << >> THEN NoStats ELSE AddStats(SumStats(Tail(s)), Head(s))

\* the stats of the completed chunks of all site tasks
RECURSIVE CompletedOf(_)
CompletedOf(S) ==
    IF S = {} THEN << >>
    ELSE LET st == CHOOSE x \in S : TRUE IN completed[st] \o CompletedOf(S \ {st})

\* C16: when run_check returns, the run's summary is the sum, field by
\* field, of the stats of the chunks whose handle_chunk completed, and its
\* total is the number of offers in those chunks, however the handle_chunk
\* invocations of the site tasks interleaved.
C16_SummaryIsSumOfCompletedChunks ==
    main_pc = "returned" =>
        /\ total_stats = SumStats(CompletedOf(RunSites))
        /\ total_stats.alerts_sent <= Len(outbox)
        /\ total_stats.total <= Len(handed["zooplus"]) + Len(handed["bitiba"])
        /\ (\A st \in RunSites : ~raised[st]) =>
                /\ total_stats.total = Len(handed["zooplus"]) + Len(handed["bitiba"])
                /\ total_stats.alerts_sent = Len(outbox)
                /\ total_stats.new_products = Cardinality(products)

\* a run returned in which both site tasks completed chunks and alerts were sent
C16_Witness ==
    /\ main_pc = "returned"
    /\ \A st \in RunSites : Len(completed[st]) >= 2
    /\ total_stats.alerts_sent >= 1
    /\ total_stats.on_sale >= 1

(***************************************************************************)
(* A page fetch on the shared browser: _fetch_page_with_js of the          *)
(* BeautifulSoup adapters, of Fressnapf and of Zoo24, and                  *)
(* _fetch_and_extract_products of Zooroyal.  Each await that can raise is  *)
(* one step.                                                               *)
(***************************************************************************)
MaxFetches == 2

\* the value of the fetch's "except Exception" clause, also returned by
\* Zooroyal and Zoo24 when the wait for the selector times out
NoData(adapter) == IF adapter = "zooroyal" THEN "[]" ELSE "None"

\* the wait for the product selector timed out
AfterSelectorTimeout(adapter) ==
    IF adapter \in {"zooroyal", "zoo24"} THEN NoData(adapter)
    ELSE "html"

InitFetch ==
    /\ deals = << >>
    /\ MatchIdle
    /\ PrefsIdle
    /\ AlertsIdle
    /\ ConvertIdle
    /\ OverlapIdle
    /\ ScanIdle
    /\ RunIdle
    /\ ZrIdle
    /\ ParseIdle
    /\ FetchIdle

\* the fetch ends: its value is returned, or the exception of the step is
\* caught by the outer "except Exception"
FetchReturns(path, result) ==
    /\ fetch_pc' = "idle"
    /\ fetch_path' = path
    /\ fetch_result' = result

\* the fetch starts: browser.new_context(...)
NewContext ==
    /\ fetch_pc = "idle"
    /\ fetch_count < MaxFetches
    /\ fetch_count' = fetch_count + 1
    /\ \E adapter \in Adapters, ok \in BOOLEAN :
          /\ fetch_adapter' = adapter
          /\ IF ok
             THEN /\ open_contexts' = open_contexts + 1
                  /\ fetch_pc' = "context"
                  /\ fetch_path' = ""
                  /\ fetch_result' = ""
             ELSE /\ FetchReturns("new_context_failed", NoData(adapter))
                  /\ UNCHANGED open_contexts
    /\ UNCHANGED <<open_pages, notFetchVars>>

\* context.new_page(), before the try block
NewPage ==
    /\ fetch_pc = "context"
    /\ \E ok \in BOOLEAN :
          IF ok
          THEN /\ open_pages' = open_pages + 1
               /\ fetch_pc' = "page"
               /\ UNCHANGED <<fetch_path, fetch_result>>
          ELSE /\ FetchReturns("new_page_failed", NoData(fetch_adapter))
               /\ UNCHANGED open_pages
    /\ UNCHANGED <<fetch_adapter, open_contexts, fetch_count, notFetchVars>>

\* the try block: goto, the wait for the selector, the scrolling, the read
ReadPage ==
    /\ fetch_pc = "page"
    /\ \E path \in {"goto_failed", "selector_timeout", "read"} :
          /\ fetch_path' = path
          /\ fetch_result' =
                CASE path = "goto_failed" -> NoData(fetch_adapter)
                  [] path = "selector_timeout" -> AfterSelectorTimeout(fetch_adapter)
                  [] path = "read" ->
                        IF fetch_adapter = "zooroyal" THEN "products" ELSE "html"
    /\ fetch_pc' = "finally"
    /\ UNCHANGED <<fetch_adapter, open_contexts, open_pages, fetch_count, notFetchVars>>

\* finally: page.close(); when it raises, context.close() is not reached
ClosePage ==
    /\ fetch_pc = "finally"
    /\ \E ok \in BOOLEAN :
          IF ok
          THEN /\ open_pages' = open_pages - 1
               /\ fetch_pc' = "close_context"
               /\ UNCHANGED <<fetch_path, fetch_result>>
          ELSE /\ FetchReturns("page_close_failed", NoData(fetch_adapter))
               /\ UNCHANGED open_pages
    /\ UNCHANGED <<fetch_adapter, open_contexts, fetch_count, notFetchVars>>

\* finally: context.close(), and the return
CloseContext ==
    /\ fetch_pc = "close_context"
    /\ open_contexts' = open_contexts - 1
    /\ fetch_pc' = "idle"
    /\ UNCHANGED <<fetch_adapter, fetch_path, fetch_result, open_pages, fetch_count,
                   notFetchVars>>

NextFetch == NewContext \/ NewPage \/ ReadPage \/ ClosePage \/ CloseContext

SpecFetch == InitFetch /\ [][NextFetch]_vars

\* C22: every context and page a fetch opened is closed when the fetch has
\* returned, whatever its exit path: between fetches no context is open.
C22_NoContextOpenBetweenFetches ==
    fetch_pc = "idle" => open_contexts = 0 /\ open_pages = 0

\* C23 (the fetch): a fetch that failed, or whose wait for the product
\* selector timed out, returns "no data" (None, or [] for Zooroyal) and
\* does not raise.
C23_FailedFetchYieldsNoData ==
    (fetch_pc = "idle" /\ fetch_path \notin {"", "read"})
        => fetch_result = NoData(fetch_adapter)

(***************************************************************************)
(* The loop that converts the tiles of one page into offers:               *)
(* _parse_products_from_html of the BeautifulSoup adapters, of Fressnapf   *)
(* and of Zoo24, and the loop over raw_products in Zooroyal's              *)
(* _scrape_single_brand.  One action converts one tile.                    *)
(***************************************************************************)
MaxTiles == 3

\* converting a tile gives an offer, gives None, or raises (as
\* _convert_to_scraped_product does for a discount of 100 percent)
TileOutcomes == {"offer", "None", "raises"}

\* the loop body is inside "try: ... except Exception" for every adapter
\* but Zooroyal
CaughtPerTile(adapter) == adapter # "zooroyal"

InitConvert ==
    /\ deals = << >>
    /\ MatchIdle
    /\ PrefsIdle
    /\ AlertsIdle
    /\ FetchIdle
    /\ OverlapIdle
    /\ ScanIdle
    /\ RunIdle
    /\ ZrIdle
    /\ ParseIdle
    /\ cv_adapter \in Adapters
    /\ cv_tiles \in SeqsUpTo(TileOutcomes, MaxTiles)
    /\ cv_tiles # << >>
    /\ cv_idx = 0
    /\ cv_products = << >>
    /\ cv_pc = "loop"

\* one iteration of the loop over the tiles
ConvertTile ==
    /\ cv_pc = "loop"
    /\ cv_idx < Len(cv_tiles)
    /\ LET data == cv_tiles[cv_idx + 1]
       IN /\ cv_idx' = cv_idx + 1
          /\ cv_products' = IF data = "offer" THEN Append(cv_products, cv_idx + 1)
                            ELSE cv_products
          /\ cv_pc' = IF data = "raises" /\ ~CaughtPerTile(cv_adapter) THEN "raised"
                      ELSE "loop"
    /\ UNCHANGED <<cv_adapter, cv_tiles, notConvertVars>>

\* the loop is over: without an offer the page loop breaks, otherwise the
\* offers go into the chunk and the page loop goes on
EndOfPage ==
    /\ cv_pc = "loop"
    /\ cv_idx = Len(cv_tiles)
    /\ cv_pc' = IF cv_products = << >> THEN "break" ELSE "next_page"
    /\ UNCHANGED <<cv_adapter, cv_tiles, cv_idx, cv_products, notConvertVars>>

NextConvert == ConvertTile \/ EndOfPage

SpecConvert == InitConvert /\ [][NextConvert]_vars

\* C26: a tile whose conversion raises is the only tile skipped: every tile
\* of the page that converts to an offer is emitted, and with such a tile on
\* the page the pagination goes on.
C26_OnlyTheRaisingTileIsSkipped ==
    LET offers == {i \in 1..Len(cv_tiles) : cv_tiles[i] = "offer"}
    IN (cv_pc # "loop" /\ cv_adapter # "")
          => /\ {cv_products[i] : i \in 1..Len(cv_products)} = offers
             /\ offers # {} => cv_pc = "next_page"

(***************************************************************************)
(* send_alerts_grouped for one recipient, called by process_products for   *)
(* the chunks of two run_check calls that overlap (the scheduled check and *)
(* the /scrape command).  The calls run on one event loop: a call runs     *)
(* from one await to the next without interruption, and                    *)
(* "await send_message_to_user" lets the other call run.                   *)
(***************************************************************************)
\* (product id, current price in cents) of the cheapest deals
AlertDeals == {<<1, 199>>, <<2, 199>>}

\* the deals of a call: no product twice
DealLists ==
    {s \in SeqsUpTo(AlertDeals, Cardinality(AlertDeals)) :
        s # << >> /\ \A i, j \in 1..Len(s) : i # j => s[i] # s[j]}

InitAlerts ==
    /\ deals = << >>
    /\ MatchIdle
    /\ PrefsIdle
    /\ ConvertIdle
    /\ FetchIdle
    /\ OverlapIdle
    /\ ScanIdle
    /\ RunIdle
    /\ ZrIdle
    /\ ParseIdle
    /\ sa_pc = [r \in Runs |-> "check"]
    /\ sa_deals \in [Runs -> DealLists]
    /\ sa_idx = [r \in Runs |-> 1]
    /\ \E earlier \in SUBSET AlertDeals :
          /\ alerts_sent_rows = earlier
          /\ delivered = [d \in AlertDeals |-> IF d \in earlier THEN 1 ELSE 0]

\* the loop over cheapest_deals goes on, or the call returns
NextDeal(r) ==
    IF sa_idx[r] < Len(sa_deals[r])
    THEN /\ sa_idx' = [sa_idx EXCEPT ![r] = @ + 1]
         /\ sa_pc' = [sa_pc EXCEPT ![r] = "check"]
    ELSE /\ sa_pc' = [sa_pc EXCEPT ![r] = "returned"]
         /\ UNCHANGED sa_idx

\* existing = session.query(AlertSent).filter(...).first(); the message is
\* formatted and send_message_to_user is awaited
CheckExisting(r) ==
    /\ sa_pc[r] = "check"
    /\ IF sa_deals[r][sa_idx[r]] \in alerts_sent_rows
       THEN NextDeal(r)
       ELSE /\ sa_pc' = [sa_pc EXCEPT ![r] = "send"]
            /\ UNCHANGED sa_idx
    /\ UNCHANGED <<sa_deals, alerts_sent_rows, delivered, notAlertsVars>>

\* bot.send_message returns or raises; on success the AlertSent row is
\* added and committed
SendMessageToUser(r) ==
    /\ sa_pc[r] = "send"
    /\ \E success \in BOOLEAN :
          IF success
          THEN /\ delivered' = [delivered EXCEPT ![sa_deals[r][sa_idx[r]]] = @ + 1]
               /\ alerts_sent_rows' = alerts_sent_rows \cup {sa_deals[r][sa_idx[r]]}
          ELSE UNCHANGED <<delivered, alerts_sent_rows>>
    /\ NextDeal(r)
    /\ UNCHANGED <<sa_deals, notAlertsVars>>

NextAlerts == \E r \in Runs : CheckExisting(r) \/ SendMessageToUser(r)

SpecAlerts == InitAlerts /\ [][NextAlerts]_vars

\* C29: the recipient gets at most one message for a (product, price), and
\* when the calls have returned the AlertSent rows are exactly the deals
\* delivered.
C29_NoSecondAlert ==
    /\ sa_pc # << >> =>
          \A d \in AlertDeals :
              /\ delivered[d] <= 1
              /\ (\A r \in Runs : sa_pc[r] = "returned")
                    => (d \in alerts_sent_rows <=> delivered[d] >= 1)

(***************************************************************************)
(* The watched brands of one UserPreferences row: the WatchedBrand rows of *)
(* the relationship and the legacy comma-separated column.                 *)
(***************************************************************************)
MaxCalls == 2

BrandNames == {"Catz", "catz", "Leonardo"}

\* str.lower()
Lower(b) == IF b = "Catz" THEN "catz" ELSE IF b = "Leonardo" THEN "leonardo" ELSE b

\* ",".join(brands), kept as the pieces between the commas
Join(bs) == bs

\* [b.strip() for b in self.watched_brands.split(",") if b.strip()]; a piece
\* is a brand name or, for the empty column, the empty string
SplitStrip(pieces) == SelectSeq(pieces, LAMBDA b : b # "")

\* UserPreferences.get_brands_list
get_brands_list(rel, legacy) ==
    IF rel # << >> THEN rel
    ELSE IF legacy = << >> THEN << >>
    ELSE SplitStrip(legacy)

\* any(b.lower() == brand_lower for b in current_brands)
Watched(current_brands, brand) ==
    \E i \in 1..Len(current_brands) : Lower(current_brands[i]) = Lower(brand)

\* a row before the first call: new, or with brands in the legacy column only
LegacyLists ==
    {s \in SeqsUpTo(BrandNames, 2) : \A i, j \in 1..Len(s) : i # j => Lower(s[i]) # Lower(s[j])}

InitPrefs ==
    /\ deals = << >>
    /\ MatchIdle
    /\ AlertsIdle
    /\ ConvertIdle
    /\ FetchIdle
    /\ OverlapIdle
    /\ ScanIdle
    /\ RunIdle
    /\ ZrIdle
    /\ ParseIdle
    /\ brands = << >>
    /\ watched_brands \in LegacyLists
    /\ pref_last = [op |-> "", brand |-> "", result |-> FALSE, before |-> << >>]
    /\ pref_calls = 0

\* UserPreferences.add_brand
AddBrand ==
    /\ pref_calls < MaxCalls
    /\ pref_calls' = pref_calls + 1
    /\ \E brand \in BrandNames :
          LET current_brands == get_brands_list(brands, watched_brands)
          IN IF Watched(current_brands, brand)
             THEN /\ pref_last' = [op |-> "add_brand", brand |-> brand, result |-> FALSE,
                                   before |-> current_brands]
                  /\ UNCHANGED <<brands, watched_brands>>
             ELSE /\ brands' = Append(brands, brand)
                  /\ watched_brands' = Join(Append(current_brands, brand))
                  /\ pref_last' = [op |-> "add_brand", brand |-> brand, result |-> TRUE,
                                   before |-> current_brands]
    /\ UNCHANGED notPrefsVars

\* UserPreferences.remove_brand
RemoveBrand ==
    /\ pref_calls < MaxCalls
    /\ pref_calls' = pref_calls + 1
    /\ \E brand \in BrandNames :
          LET before == get_brands_list(brands, watched_brands)
              kept == SelectSeq(brands, LAMBDA b : Lower(b) # Lower(brand))
              found == kept # brands
              current_brands == get_brands_list(kept, watched_brands)
              new_brands == SelectSeq(current_brands, LAMBDA b : Lower(b) # Lower(brand))
          IN /\ brands' = kept
             /\ IF Len(new_brands) = Len(current_brands) /\ ~found
                THEN /\ UNCHANGED watched_brands
                     /\ pref_last' = [op |-> "remove_brand", brand |-> brand,
                                      result |-> FALSE, before |-> before]
                ELSE /\ watched_brands' = Join(new_brands)
                     /\ pref_last' = [op |-> "remove_brand", brand |-> brand,
                                      result |-> TRUE, before |-> before]
    /\ UNCHANGED notPrefsVars

NextPrefs == AddBrand \/ RemoveBrand

SpecPrefs == InitPrefs /\ [][NextPrefs]_vars

\* C30: after add_brand(b) every brand that get_brands_list() returned before
\* the call is still returned, also a brand stored in the legacy column only;
\* when b was watched already, in any case, the call returns False and the
\* list is as before.
C30_AddBrandDropsNoBrand ==
    (pref_last # << >> /\ pref_last.op = "add_brand") =>
        LET after == get_brands_list(brands, watched_brands)
        IN /\ \A i \in 1..Len(pref_last.before) :
                 \E j \in 1..Len(after) : after[j] = pref_last.before[i]
           /\ Watched(pref_last.before, pref_last.brand)
                 => (~pref_last.result /\ after = pref_last.before)

====
